---------------------------- MODULE Spec2Model ----------------------------
(***************************************************************************)
(* A model of the SDOF vibration tool: the solver core (src/core) and the  *)
(* handlers of the panels (src/gui) that drive it.                         *)
(*                                                                         *)
(* Real numbers.  The program computes in IEEE double precision; the model *)
(* computes in decimal fixed point: a real v is the integer v * SCALE,     *)
(* SCALE = 10^6, every product and quotient rounded toward zero.  The      *)
(* elementary functions (sqrt, exp, sin, cos, atan2) are computed, by      *)
(* Newton iteration and power series, and therefore round as the           *)
(* program's do: sqrt(2)^2 is not 2 here either.  All intermediate values  *)
(* stay inside 32-bit integers.                                            *)
(***************************************************************************)
EXTENDS Integers, Sequences, FiniteSets, TLC

(***************************************************************************)
(* Evaluation order                                                        *)
(***************************************************************************)
\* F(v), with v evaluated once however often F uses it.
Bind(v, F(_)) == CHOOSE out \in {F(r) : r \in {v}} : TRUE

\* F(v, w), with v and w evaluated once.
Bind2(v, w, F(_, _)) == CHOOSE out \in {F(r, q) : r \in {v}, q \in {w}} : TRUE

(***************************************************************************)
(* Fixed-point arithmetic                                                  *)
(***************************************************************************)
SCALE == 1000 * 1000

ONE == SCALE

\* np.pi, to six decimals.
PI == 3141593

Abs(x) == IF x < 0 THEN -x ELSE x

Sgn(x) == IF x < 0 THEN -1 ELSE IF x > 0 THEN 1 ELSE 0

Max2(a, b) == IF a >= b THEN a ELSE b

Min2(a, b) == IF a <= b THEN a ELSE b

\* Integer quotient rounded toward zero.
TruncDiv(a, b) ==
    Bind2(a, b, LAMBDA p, q : Sgn(p) * Sgn(q) * (Abs(p) \div Abs(q)))

\* |a| * |b| / SCALE for nonnegative fixed-point a, b, without leaving 32 bits.
MulAbs(a, b) ==
    LET ah == a \div 1000
        al == a % 1000
        bh == b \div 1000
        bl == b % 1000
    IN  ah * bh + ((ah * bl + al * bh) + ((al * bl) \div 1000)) \div 1000

\* The product a * b.
Mul(a, b) == Bind2(a, b, LAMBDA p, q : Sgn(p) * Sgn(q) * MulAbs(Abs(p), Abs(q)))

RECURSIVE DivDigits(_, _, _)
\* n further decimal digits of r / b, for 0 <= r < b.
DivDigits(r, b, n) ==
    IF n = 0 THEN 0
    ELSE Bind2((r * 10) \div b, (r * 10) % b, LAMBDA d, e :
            d * (10 ^ (n - 1)) + DivDigits(e, b, n - 1))

\* The quotient a / b, b # 0.
Div(a, b) ==
    Bind2(a, b, LAMBDA x, y :
        Bind2(Abs(x), Abs(y), LAMBDA p, q :
            Sgn(x) * Sgn(y) * ((p \div q) * SCALE + DivDigits(p % q, q, 6))))

\* a ** 2
Sq(a) == Bind(a, LAMBDA p : Mul(p, p))

RECURSIVE SqrtNewton(_, _)
\* Newton's iteration for the square root of a from above, y >= sqrt(a).
SqrtNewton(a, y) ==
    Bind((y + Div(a, y)) \div 2, LAMBDA z :
        IF z >= y THEN y ELSE SqrtNewton(a, z))

\* np.sqrt(a), a >= 0.
Sqrt(a) ==
    Bind(a, LAMBDA p :
        IF p = 0 THEN 0 ELSE Bind((p + ONE) \div 2 + 1, LAMBDA y : SqrtNewton(p, y)))

RECURSIVE ExpSeries(_, _, _)
\* term + term*x/n + term*x^2/(n(n+1)) + ..., x >= 0.
ExpSeries(x, term, n) ==
    IF term = 0 THEN 0
    ELSE Bind(Mul(term, x) \div n, LAMBDA next : term + ExpSeries(x, next, n + 1))

RECURSIVE Exp(_)
\* np.exp(x); outside [-4, 4] by exp(x) = exp(x/2)^2.
Exp(x) ==
    Bind(x, LAMBDA p :
        IF p > 4 * ONE \/ p < -4 * ONE THEN Sq(Exp(p \div 2))
        ELSE IF p >= 0 THEN ExpSeries(p, ONE, 1)
        ELSE Bind(-p, LAMBDA q : Div(ONE, ExpSeries(q, ONE, 1))))

RECURSIVE TrigSeries(_, _, _)
\* term - term*x^2/(n(n+1)) + ..., the alternating series of sin and cos.
TrigSeries(x, term, n) ==
    IF term = 0 THEN 0
    ELSE Bind(-TruncDiv(Mul(Mul(term, x), x), n * (n + 1)), LAMBDA next :
            term + TrigSeries(x, next, n + 2))

\* x reduced to [-PI, PI] by whole turns.
Reduce(x) == Bind(x % (2 * PI), LAMBDA r : IF r > PI THEN r - 2 * PI ELSE r)

\* np.sin(x): odd, sin(0) = 0.
Sin(x) ==
    Bind(x, LAMBDA p :
        IF p < 0 THEN Bind(Reduce(-p), LAMBDA r : -TrigSeries(r, r, 2))
        ELSE Bind(Reduce(p), LAMBDA r : TrigSeries(r, r, 2)))

\* np.cos(x): even, cos(0) = 1.
Cos(x) == Bind(Reduce(Abs(x)), LAMBDA r : TrigSeries(r, ONE, 1))

RECURSIVE AtanSeries(_, _, _)
\* z - z^3/3 + z^5/5 - ..., with power = +-z^n.
AtanSeries(z, power, n) ==
    IF power = 0 THEN 0
    ELSE Bind(-Mul(Mul(power, z), z), LAMBDA next :
            TruncDiv(power, n) + AtanSeries(z, next, n + 2))

\* atan(z) = 2 atan(z / (1 + sqrt(1 + z^2))), used to shrink the argument.
AtanHalve(z) == Bind(z, LAMBDA p : Div(p, ONE + Sqrt(ONE + Sq(p))))

\* atan(z) for 0 <= z <= 1.
AtanUnit(z) == Bind(AtanHalve(AtanHalve(z)), LAMBDA w : 4 * AtanSeries(w, w, 1))

\* atan(y / x) for y >= 0, x >= 0, not both zero.
AtanRatio(y, x) ==
    Bind2(y, x, LAMBDA p, q :
        IF p <= q THEN AtanUnit(Div(p, q)) ELSE PI \div 2 - AtanUnit(Div(q, p)))

\* np.arctan2(y, x)
Atan2(y, x) ==
    Bind2(y, x, LAMBDA p, q :
        IF p = 0 /\ q >= 0 THEN 0
        ELSE IF q >= 0 THEN Sgn(p) * AtanRatio(Abs(p), q)
        ELSE IF p >= 0 THEN PI - AtanRatio(p, -q)
        ELSE -(PI - AtanRatio(-p, -q)))

\* ln 2 and ln 10 at the resolution of the model.
LN2 == 693147

LN10 == 2302585

RECURSIVE LnSeries(_, _, _)
\* z + z^3/3 + z^5/5 + ..., with power = z^n.
LnSeries(z, power, n) ==
    IF power = 0 THEN 0
    ELSE Bind(Mul(Mul(power, z), z), LAMBDA next :
            TruncDiv(power, n) + LnSeries(z, next, n + 2))

RECURSIVE Ln(_)
\* np.log(x), x > 0: halved or doubled into [1, 2), then
\* ln x = 2 atanh((x - 1)/(x + 1)).
Ln(x) ==
    Bind(x, LAMBDA p :
        IF p >= 2 * ONE THEN LN2 + Ln(p \div 2)
        ELSE IF p < ONE THEN Ln(2 * p) - LN2
        ELSE Bind(Div(p - ONE, p + ONE), LAMBDA z : 2 * LnSeries(z, z, 1)))

\* np.log10(x), x > 0.
Log10(x) == Div(Ln(x), LN10)

\* 10 ** y, as np.logspace raises its base to the exponents.
Pow10(y) == Exp(Mul(y, LN10))

\* np.degrees(x)
Degrees(x) == Div(Mul(x, 180 * ONE), PI)

(***************************************************************************)
(* Sequences of reals                                                      *)
(***************************************************************************)
RECURSIVE SeqMax(_)
\* np.max of a non-empty array.
SeqMax(s) == IF Len(s) = 1 THEN s[1] ELSE Max2(s[1], SeqMax(Tail(s)))

RECURSIVE SeqMin(_)
\* np.min of a non-empty array.
SeqMin(s) == IF Len(s) = 1 THEN s[1] ELSE Min2(s[1], SeqMin(Tail(s)))

\* np.abs of an array.
SeqAbs(s) == [j \in 1..Len(s) |-> Abs(s[j])]

\* np.zeros(n)
Zeros(n) == [j \in 1..n |-> 0]

\* The Python slice s[lo:hi] of a 0-based array (0 <= lo, hi <= len(s)).
Slice(s, lo, hi) == IF hi <= lo THEN <<>> ELSE SubSeq(s, lo + 1, hi)

\* All sequences over S of length lo..hi.
SeqsOf(S, lo, hi) == UNION {[1..n -> S] : n \in lo..hi}

\* The rearrangements of the sequence s.
PermutationsOf(s) ==
    {[j \in 1..Len(s) |-> s[p[j]]] :
        p \in {q \in [1..Len(s) -> 1..Len(s)] :
                  \A a, b \in 1..Len(s) : a # b => q[a] # q[b]}}

(***************************************************************************)
(* Bounds of the model and the inputs it enumerates                        *)
(***************************************************************************)
\* Longest base-acceleration record given to compute_srs directly.
MaxLen == 3

\* Most spectral frequencies in one compute_srs call.
MaxFreqs == 2

\* Base-acceleration samples: -1, 0, 0.01, 1 (0.01 does not exceed 1% of a
\* peak of 1; it does when it is the peak itself).
BaseLevels == {-ONE, 0, 10000, ONE}

BaseRecords == SeqsOf(BaseLevels, 1, MaxLen)

\* Spectral frequencies in Hz: 0.05 and 0.1.
FreqSet == {50000, 100000}

FreqLists == SeqsOf(FreqSet, 0, MaxFreqs)

\* Damping ratio of the spectrum: the default 5%.
SrsZetaSet == {50000}

\* Time steps in seconds: 1 and 0.5.
DtSet == {ONE, 500000}

(***************************************************************************)
(* State                                                                   *)
(***************************************************************************)
VARIABLES
    base_accel,      \* compute_srs: the base-acceleration record
    dt,              \* compute_srs: the time step
    frequencies,     \* compute_srs: the requested spectral frequencies
    damping_ratio,   \* compute_srs: the damping ratio of every oscillator
    srs_pc,          \* "idle", "loop" (inside the for loop) or "done"
    shock_end_idx,   \* compute_srs: 0-based index of the end of the shock
    srs_i,           \* compute_srs: 0-based loop index
    maxi_max, primary_pos, primary_neg, residual_pos, residual_neg,
                     \* compute_srs: the five arrays being filled
    srs_result,      \* the dictionary returned by the last completed call
    srs_prev,        \* frequencies and dictionary of the call before it
    pulse_pc,        \* generate_shock_pulse: "idle" or "done"
    pulse_type,      \* generate_shock_pulse: the pulse kind
    duration,        \* generate_shock_pulse: the pulse duration
    amplitude,       \* generate_shock_pulse: the peak amplitude
    pulse_dt,        \* generate_shock_pulse: the time step
    t,               \* generate_shock_pulse: the returned time array
    accel,           \* generate_shock_pulse: the returned acceleration array
    system,          \* the SDOFSystem last built by InputPanel.get_system
    damping_type_label,  \* InputPanel: the text of the damping-type label
    response_type,   \* which time-response operation was evaluated
    time,            \* the time array it was evaluated on
    displacement,    \* the displacement (or envelope) array it returned
    x_steady,        \* compute_harmonic_response: the steady-state array
    env,             \* SDOFApp._calculate_time_response: the envelope
    coeffs,          \* the local coefficients of the branch that ran
    crossover,       \* what find_crossover_frequency returned, <<>> before
    tr_zeta,         \* compute_transmissibility_normalized: zeta
    frequency_ratios,  \* compute_transmissibility_normalized: the ratios r
    TR,              \* compute_transmissibility_normalized: the result
    entries,         \* InputPanel: mass, stiffness, damping entries and mode
    controls,        \* ControlPanel: the analysis type and its option entries
    current_data,    \* SDOFApp._current_data, None before any calculation
    messagebox,      \* title of the message box the last click showed, if any
    widgets,         \* ControlPanel: each option widget's creation and fate
    export_log,      \* what the last click on an export button did
    data_system      \* history: the oscillator _current_data was computed from

srsVars == <<base_accel, dt, frequencies, damping_ratio, srs_pc, shock_end_idx,
             srs_i, maxi_max, primary_pos, primary_neg, residual_pos,
             residual_neg, srs_result, srs_prev>>

pulseVars == <<pulse_pc, pulse_type, duration, amplitude, pulse_dt, t, accel>>

oscVars == <<system, damping_type_label>>

timeVars == <<response_type, time, displacement, x_steady, env, coeffs>>

transVars == <<crossover, tr_zeta, frequency_ratios, TR>>

appVars ==
    <<entries, controls, current_data, messagebox, widgets, export_log,
      data_system>>

vars == <<srsVars, pulseVars, oscVars, timeVars, transVars, appVars>>

\* What each part of the program leaves alone.
exceptSrs == <<pulseVars, oscVars, timeVars, transVars, appVars>>

exceptPulse == <<srsVars, oscVars, timeVars, transVars, appVars>>

exceptOsc == <<srsVars, pulseVars, timeVars, transVars, appVars>>

exceptTime == <<srsVars, pulseVars, oscVars, transVars, appVars>>

exceptTrans == <<srsVars, pulseVars, oscVars, timeVars, appVars>>

exceptApp == <<srsVars, pulseVars, timeVars, transVars>>

\* "No dictionary": nothing returned yet.
None == [none |-> TRUE]

(***************************************************************************)
(* shock_response.py: generate_shock_pulse                                 *)
(***************************************************************************)
\* Longest pulse duration the model enumerates, in half seconds.
MaxDurationHalves == 2

\* Pulse durations in seconds: 0.5, 1.0, ...
DurationSet == {n * 500000 : n \in 1..MaxDurationHalves}

\* Time steps in seconds: 0.1, 0.25, 0.3 (divides no duration) and 1.
PulseDtSet == {100000, 250000, 300000, ONE}

\* Peak amplitudes: 1 and 2.
AmplitudeSet == {ONE, 2 * ONE}

\* The seven pulse kinds of the if/elif chain and one it does not know.
PulseTypes == {"half_sine", "triangular", "rectangular", "versed_sine",
               "trapezoidal", "initial_peak_sawtooth",
               "terminal_peak_sawtooth", "square"}

\* What IEEE division by zero leaves in an array: +/-inf and nan.
Inf == 2000000000

NaN == 2100000000

\* int(x) for x >= 0.
IntOf(x) == TruncDiv(x, ONE)

\* The least integer that is >= x, for x >= 0.
CeilOf(x) == IF x % ONE = 0 THEN x \div ONE ELSE x \div ONE + 1

\* len(np.arange(0, stop, step)): the multiples of step below stop.
ArangeLen(stop, step) == CeilOf(Div(stop, step))

\* An arange that goes one step further, up to or beyond the stop.
ArangeInclusive(stop, step) == [j \in 1..(ArangeLen(stop, step) + 1) |-> (j - 1) * step]

\* np.arange(0, stop, step)
Arange(stop, step) == [j \in 1..ArangeLen(stop, step) |-> (j - 1) * step]

\* C4 mutant: the pulse samples counted by rounding up.
PulseSamplesUp(D, h) == CeilOf(Div(D, h))

\* pulse_samples = int(duration / dt)
PulseSamples(D, h) == IntOf(Div(D, h))

\* The falling edge of the trapezoid at time tj: rise_dt = rise_samples * dt
\* is 0 when the pulse has fewer than four samples, and the division by it
\* leaves nan or an infinity.
TrapezoidFall(A, tj, fall_start_dt, rise_dt) ==
    IF rise_dt # 0 THEN Mul(A, ONE - Div(tj - fall_start_dt, rise_dt))
    ELSE IF tj = fall_start_dt \/ A = 0 THEN NaN
    ELSE -Sgn(A) * Inf

\* A chain that assigns the amplitude whatever the kind.
PulseShapeAnyKind(kind, D, A, h, N, j, tj) == A

\* The value the branch of pulse_type assigns at 0-based index j < N, where
\* tj = t[j]; a kind outside the chain assigns nothing.
PulseShape(kind, D, A, h, N, j, tj) ==
    CASE kind = "half_sine" -> Mul(A, Sin(Div(Mul(PI, tj), D)))
      [] kind = "triangular" ->
            IF j < N \div 2 THEN Div(Mul(2 * A, tj), D)
            ELSE Mul(A, 2 * ONE - Div(2 * tj, D))
      [] kind = "rectangular" -> A
      [] kind = "versed_sine" -> Mul(A, ONE - Cos(Div(Mul(2 * PI, tj), D))) \div 2
      [] kind = "trapezoidal" ->
            LET rise_samples == N \div 4
                hold_samples == N \div 2
                fall_start == rise_samples + hold_samples
            IN  IF j < rise_samples THEN Div(Mul(A, tj), rise_samples * h)
                ELSE IF j < fall_start THEN A
                ELSE TrapezoidFall(A, tj, fall_start * h, rise_samples * h)
      [] kind = "initial_peak_sawtooth" -> Mul(A, ONE - Div(tj, D))
      [] kind = "terminal_peak_sawtooth" -> Div(Mul(A, tj), D)
      [] OTHER -> 0

\* The acceleration array: zeros, then the first pulse_samples entries
\* overwritten by the branch of pulse_type.
PulseAccel(kind, D, A, h, ts) ==
    Bind(PulseSamples(D, h), LAMBDA N :
        [j \in 1..Len(ts) |->
            IF j <= N THEN PulseShape(kind, D, A, h, N, j - 1, ts[j]) ELSE 0])

\* generate_shock_pulse(pulse_type, duration, amplitude, dt)
GenerateShockPulse(kind, D, A, h) ==
    /\ pulse_pc = "idle"
    /\ pulse_type' = kind
    /\ duration' = D
    /\ amplitude' = A
    /\ pulse_dt' = h
    /\ \E ts \in {Arange(10 * D, h)} :
          /\ t' = ts
          /\ accel' = PulseAccel(kind, D, A, h, ts)
    /\ pulse_pc' = "done"

\* Before any pulse is generated.
PulseIdle ==
    /\ pulse_pc = "idle"
    /\ pulse_type = ""
    /\ duration = 0
    /\ amplitude = 0
    /\ pulse_dt = 0
    /\ t = <<>>
    /\ accel = <<>>

(***************************************************************************)
(* shock_response.py: compute_sdof_response (Newmark-beta)                 *)
(***************************************************************************)
\* gamma = 0.5
gamma == 500000

\* beta = 0.25
beta == 250000

\* omega_n = 2 * np.pi * natural_freq
OmegaOf(natural_freq) == Mul(2 * PI, natural_freq)

\* The coefficients of the scheme, each named after the expression of the
\* source it is: k_eff (line 102) and the factors of lines 106-121.
NewmarkCoeffs(omega_n, zeta, h) ==
    [k_eff |-> Sq(omega_n)
               + Mul(Mul(Div(gamma, Mul(beta, h)), 2 * zeta), omega_n)
               + Div(ONE, Mul(beta, Sq(h))),
     inv_beta_dt2 |-> Div(ONE, Mul(beta, Sq(h))),
     inv_beta_dt |-> Div(ONE, Mul(beta, h)),
     inv_2beta_m1 |-> Div(ONE, 2 * beta) - ONE,
     two_zeta_omega |-> Mul(2 * zeta, omega_n),
     gamma_beta_dt |-> Div(gamma, Mul(beta, h)),
     gamma_beta_m1 |-> Div(gamma, beta) - ONE,
     dt_gamma_2beta_m1 |-> Mul(h, Div(gamma, 2 * beta) - ONE),
     one_m_gamma_beta |-> ONE - Div(gamma, beta),
     dt_one_m_gamma_2beta |-> Mul(h, ONE - Div(gamma, 2 * beta))]

\* p_eff, the effective load of the step from state s = (x, v, a) to the
\* next sample b of the base acceleration.
PEff(s, b, c) ==
    -b
    + Mul(c.inv_beta_dt2, s.x)
    + Mul(c.inv_beta_dt, s.v)
    + Mul(c.inv_2beta_m1, s.a)
    + Mul(c.two_zeta_omega,
          Mul(c.gamma_beta_dt, s.x)
          + Mul(c.gamma_beta_m1, s.v)
          + Mul(c.dt_gamma_2beta_m1, s.a))

\* One pass of the loop body: x[i+1], v[i+1], a[i+1] from x[i], v[i], a[i].
NewmarkStep(s, b, c) ==
    Bind(Div(PEff(s, b, c), c.k_eff), LAMBDA x1 :
        [x |-> x1,
         v |-> Mul(c.gamma_beta_dt, x1 - s.x)
               + Mul(c.one_m_gamma_beta, s.v)
               + Mul(c.dt_one_m_gamma_2beta, s.a),
         a |-> Mul(c.inv_beta_dt2, x1 - s.x)
               - Mul(c.inv_beta_dt, s.v)
               - Mul(c.inv_2beta_m1, s.a)])

\* A start with the base acceleration itself as the relative acceleration.
NewmarkInitUnsigned(base) == [x |-> 0, v |-> 0, a |-> base[1]]

\* The state the integration starts from: at rest, a[0] = -base_accel[0].
NewmarkInit(base) == [x |-> 0, v |-> 0, a |-> -base[1]]

RECURSIVE NewmarkStates(_, _, _)
\* The states (x, v, a) at samples 0..n-1, n <= len(base).
NewmarkStates(base, n, c) ==
    IF n = 1 THEN <<NewmarkInit(base)>>
    ELSE Bind(NewmarkStates(base, n - 1, c), LAMBDA before :
            Bind(before[n - 1], LAMBDA s :
                Append(before, NewmarkStep(s, base[n], c))))

\* compute_sdof_response: the relative displacement x at every sample.
compute_sdof_response(natural_freq, zeta, base, h) ==
    Bind(NewmarkCoeffs(OmegaOf(natural_freq), zeta, h), LAMBDA c :
        Bind(NewmarkStates(base, Len(base), c), LAMBDA st :
            [j \in 1..Len(base) |-> st[j].x]))

(***************************************************************************)
(* shock_response.py: compute_srs                                          *)
(***************************************************************************)
\* The 1% of "0.01 * peak_accel".
OnePercent == 10000

\* peak_accel = np.max(np.abs(base_accel))
PeakAccel(base) == SeqMax(SeqAbs(base))

\* C2 mutant: the scan stops at a sample that merely reaches the threshold.
ReachesThreshold(base, i) == Abs(base[i + 1]) >= Mul(OnePercent, PeakAccel(base))

\* Whether the sample at 0-based index i passes the test of the backward scan.
ExceedsThreshold(base, i) == Abs(base[i + 1]) > Mul(OnePercent, PeakAccel(base))

RECURSIVE ScanBack(_, _)
\* The backward scan from 0-based index i: the first index that passes the
\* test, or the initial value len(base_accel) - 1 when the scan runs out.
ScanBack(base, i) ==
    IF i < 0 THEN Len(base) - 1
    ELSE IF ExceedsThreshold(base, i) THEN i
    ELSE ScanBack(base, i - 1)

\* shock_end_idx as lines 153-159 compute it.
ShockEndIdx(base) == ScanBack(base, Len(base) - 1)

\* response = omega_n**2 * x, the pseudo-acceleration history for fn.
Response(fn, zeta, base, h) ==
    Bind2(compute_sdof_response(fn, zeta, base, h), Sq(OmegaOf(fn)),
          LAMBDA x, omega_n2 : [j \in 1..Len(base) |-> Mul(omega_n2, x[j])])

\* Response over the records, frequencies, damping ratios and time steps the
\* model enumerates, evaluated once.
ResponseTable ==
    [b \in BaseRecords, fn \in FreqSet, zeta \in SrsZetaSet, h \in DtSet |->
        Response(fn, zeta, b, h)] @@ <<>>

\* The response compute_srs works on in one pass of its loop (lines 170-174).
ResponseOf(fn, zeta, base, h) ==
    IF <<base, fn, zeta, h>> \in DOMAIN ResponseTable
    THEN ResponseTable[base, fn, zeta, h]
    ELSE Response(fn, zeta, base, h)

\* primary_response = response[:shock_end_idx + 1]
PrimaryResponse(response, end) == Slice(response, 0, end + 1)

\* A residual segment that begins at the shock-end sample itself.
ResidualFromShockEnd(response, end) == Slice(response, end, Len(response))

\* residual_response = response[shock_end_idx + 1:]
ResidualResponse(response, end) == Slice(response, end + 1, Len(response))

\* C3 mutant: every pass of the loop writes the first position.
SlotFirst(i) == 1

\* The 1-based position the loop pass with 0-based index i writes.
SlotOf(i) == i + 1

\* C1 mutant: the maximax taken without the absolute value.
MaxiMaxSigned(response) == SeqMax(response)

\* maxi_max[i] = np.max(np.abs(response))
MaxiMax(response) == SeqMax(SeqAbs(response))

\* A result array that is the array of the same length left by the call
\* before, when there is one.
ResultArrayReused(n) == IF Len(maxi_max) = n THEN maxi_max ELSE Zeros(n)

\* np.zeros(n_freq): each of the five result arrays of a call is new.
ResultArray(n) == Zeros(n)

\* compute_srs, lines 151-166: the shock end and the five zero arrays.
CallComputeSrs(f) ==
    /\ srs_pc \in {"idle", "done"}
    /\ f \in (IF srs_pc = "idle" THEN FreqLists ELSE PermutationsOf(frequencies))
    /\ frequencies' = f
    /\ shock_end_idx' = ShockEndIdx(base_accel)
    /\ maxi_max' = ResultArray(Len(f))
    /\ primary_pos' = ResultArray(Len(f))
    /\ primary_neg' = ResultArray(Len(f))
    /\ residual_pos' = ResultArray(Len(f))
    /\ residual_neg' = ResultArray(Len(f))
    /\ srs_i' = 0
    /\ srs_pc' = "loop"
    /\ srs_prev' = IF srs_pc = "done"
                   THEN [frequencies |-> frequencies, result |-> srs_result]
                   ELSE None
    /\ UNCHANGED <<base_accel, dt, damping_ratio, srs_result>>

\* compute_srs, lines 168-188: one pass of "for i, fn in enumerate(frequencies)".
SrsLoopBody ==
    /\ srs_pc = "loop"
    /\ srs_i < Len(frequencies)
    /\ \E response \in {ResponseOf(frequencies[srs_i + 1], damping_ratio,
                                    base_accel, dt)} :
       LET primary == PrimaryResponse(response, shock_end_idx)
           residual == ResidualResponse(response, shock_end_idx)
           k == SlotOf(srs_i)
       IN  /\ primary_pos' = [primary_pos EXCEPT ![k] = SeqMax(primary)]
           /\ primary_neg' = [primary_neg EXCEPT ![k] = SeqMin(primary)]
           /\ residual_pos' = IF Len(residual) > 0
                              THEN [residual_pos EXCEPT ![k] = SeqMax(residual)]
                              ELSE residual_pos
           /\ residual_neg' = IF Len(residual) > 0
                              THEN [residual_neg EXCEPT ![k] = SeqMin(residual)]
                              ELSE residual_neg
           /\ maxi_max' = [maxi_max EXCEPT ![k] = MaxiMax(response)]
    /\ srs_i' = srs_i + 1
    /\ UNCHANGED <<base_accel, dt, frequencies, damping_ratio, srs_pc,
                   shock_end_idx, srs_result, srs_prev>>

\* compute_srs, lines 190-197: the returned dictionary.
SrsReturn ==
    /\ srs_pc = "loop"
    /\ srs_i = Len(frequencies)
    /\ srs_result' = [frequencies |-> frequencies,
                      maxi_max |-> maxi_max,
                      primary_pos |-> primary_pos,
                      primary_neg |-> SeqAbs(primary_neg),
                      residual_pos |-> residual_pos,
                      residual_neg |-> SeqAbs(residual_neg)]
    /\ srs_pc' = "done"
    /\ UNCHANGED <<base_accel, dt, frequencies, damping_ratio, shock_end_idx,
                   srs_i, maxi_max, primary_pos, primary_neg, residual_pos,
                   residual_neg, srs_prev>>

\* A time step of a tenth of the shortest period.
PulseTimeStepTenth(max_freq) == Div(ONE, 10 * max_freq)

\* dt = 1 / (max_freq * 20)
PulseTimeStep(max_freq) == Div(ONE, 20 * max_freq)

\* Spectral frequencies of a spectrum taken from a pulse, in Hz: 0.05 and
\* 0.1 (time steps of 1 s and 0.5 s).
PulseFreqSet == {50000, 100000}

\* The pulse kinds a spectrum is taken from: all but the trapezoidal one,
\* which needs at least four pulse samples to be finite.
SrsPulseTypes == PulseTypes \ {"trapezoidal"}

\* compute_srs_from_pulse, lines 221-229, up to the loop of compute_srs:
\* the time step from the highest frequency, the pulse record generated
\* with it, and the entry of compute_srs on that record and time step.
CallComputeSrsFromPulse(kind, D, A, f, zeta) ==
    /\ srs_pc = "idle"
    /\ Len(f) > 0
    /\ \E h \in {PulseTimeStep(SeqMax(f))} :
          /\ GenerateShockPulse(kind, D, A, h)
          /\ dt' = h
    /\ base_accel' = accel'
    /\ damping_ratio' = zeta
    /\ frequencies' = f
    /\ shock_end_idx' = ShockEndIdx(base_accel')
    /\ maxi_max' = ResultArray(Len(f))
    /\ primary_pos' = ResultArray(Len(f))
    /\ primary_neg' = ResultArray(Len(f))
    /\ residual_pos' = ResultArray(Len(f))
    /\ residual_neg' = ResultArray(Len(f))
    /\ srs_i' = 0
    /\ srs_pc' = "loop"
    /\ UNCHANGED <<srs_result, srs_prev>>

\* compute_srs not called: no record, nothing computed.
SrsIdle ==
    /\ base_accel = <<>>
    /\ dt = 0
    /\ damping_ratio = 0
    /\ frequencies = <<>>
    /\ srs_pc = "idle"
    /\ shock_end_idx = 0
    /\ srs_i = 0
    /\ maxi_max = <<>>
    /\ primary_pos = <<>>
    /\ primary_neg = <<>>
    /\ residual_pos = <<>>
    /\ residual_neg = <<>>
    /\ srs_result = None
    /\ srs_prev = None

(***************************************************************************)
(* sdof_system.py: SDOFSystem; input_panel.py: the derived values          *)
(***************************************************************************)
\* Mass entries: 0 (rejected), 1 and 4 kg.
MassEntries == {0, ONE, 4 * ONE}

\* Stiffness entries: 1 and 4 N/m.
StiffnessEntries == {ONE, 4 * ONE}

\* Damping entries, read as a coefficient or as a ratio: a negative value
\* (rejected), 0, values well inside each regime and values around the
\* critical one (0.999995, 1, 1.000005 and their doubles).
DampingEntries == {-ONE, 0, 400000, 1200000, 999995, ONE, 1000005, 1999990,
                   2 * ONE, 2000010, 4 * ONE, 8 * ONE}

\* SDOFSystem(mass, stiffness, damping)
SDOFSystem(m, k, c) == [mass |-> m, stiffness |-> k, damping |-> c]

\* SDOFSystem.from_damping_ratio
from_damping_ratio(m, k, zeta) ==
    Bind(2 * Sqrt(Mul(k, m)), LAMBDA c_critical :
        SDOFSystem(m, k, Mul(zeta, c_critical)))

\* SDOFSystem.natural_frequency
natural_frequency(sys) == Sqrt(Div(sys.stiffness, sys.mass))

\* A critical damping without the factor 2.
critical_damping_halved(sys) == Sqrt(Mul(sys.stiffness, sys.mass))

\* SDOFSystem.critical_damping
critical_damping(sys) == 2 * Sqrt(Mul(sys.stiffness, sys.mass))

\* SDOFSystem.damping_ratio
system_damping_ratio(sys) == Div(sys.damping, critical_damping(sys))

\* SDOFSystem.damped_frequency
damped_frequency(sys) ==
    Bind(system_damping_ratio(sys), LAMBDA zeta :
        IF zeta >= ONE THEN 0
        ELSE Mul(natural_frequency(sys), Sqrt(ONE - Sq(zeta))))

\* The default tolerances of np.isclose: rtol = 1e-05 and atol = 1e-08, the
\* latter below the resolution of the model.
rtol == 10

atol == 0

\* np.isclose(a, b): |a - b| <= atol + rtol * |b|
isclose(a, b) == Abs(a - b) <= atol + Mul(rtol, Abs(b))

\* SDOFSystem.is_underdamped
is_underdamped(sys) == system_damping_ratio(sys) < ONE

\* SDOFSystem.is_critically_damped
is_critically_damped(sys) == isclose(system_damping_ratio(sys), ONE)

\* SDOFSystem.is_overdamped
is_overdamped(sys) == system_damping_ratio(sys) > ONE

\* The validation without validate_non_negative.
EntriesValidLoose(m, k, d) == m > 0 /\ k > 0

\* InputPanel.get_system: the entries pass validate_positive (mass,
\* stiffness) and validate_non_negative (damping).
EntriesValid(m, k, d) == m > 0 /\ k > 0 /\ d >= 0

\* InputPanel.get_system, after validation.
get_system(m, k, d, use_ratio) ==
    IF use_ratio THEN from_damping_ratio(m, k, d) ELSE SDOFSystem(m, k, d)

\* The if/elif chain that picks the text of the damping-type label.
DampingTypeText(sys) ==
    IF is_underdamped(sys) THEN "Underdamped"
    ELSE IF is_critically_damped(sys) THEN "Critically Damped"
    ELSE "Overdamped"

\* The oscillator and the label text derived from valid entries (lines
\* 172-184).
Derived(m, k, d, use_ratio) ==
    Bind(get_system(m, k, d, use_ratio), LAMBDA sys :
        [system |-> sys, text |-> DampingTypeText(sys)])

\* Derived over the entries the model types in, evaluated once.
DerivedTable ==
    [m \in MassEntries \ {0}, k \in StiffnessEntries,
     d \in {e \in DampingEntries : e >= 0}, use_ratio \in BOOLEAN |->
        Derived(m, k, d, use_ratio)] @@ <<>>

DerivedOf(m, k, d, use_ratio) ==
    IF <<m, k, d, use_ratio>> \in DOMAIN DerivedTable
    THEN DerivedTable[m, k, d, use_ratio]
    ELSE Derived(m, k, d, use_ratio)

\* InputPanel._update_derived_values on the entries m, k, d: the system and
\* its label, or the label cleared when get_system raises ValidationError.
UpdateDerivedValues(m, k, d, use_ratio) ==
    IF EntriesValid(m, k, d)
    THEN \E res \in {DerivedOf(m, k, d, use_ratio)} :
            /\ system' = res.system
            /\ damping_type_label' = res.text
    ELSE /\ damping_type_label' = "-"
         /\ UNCHANGED system

\* Before the panel has derived anything.
OscIdle == system = None /\ damping_type_label = "-"

(***************************************************************************)
(* time_response.py                                                        *)
(***************************************************************************)
\* Most points of a time array.
MaxPoints == 3

\* The optional argument t_end: <<>> for None, <<v>> for the value v.
NoTEnd == <<>>

\* t_end after the "if t_end is None" default of the impulse and step
\* responses.
TEndOr(t_end, default) == IF t_end = NoTEnd THEN default ELSE t_end[1]

\* Before any time response is evaluated.
TimeIdle ==
    /\ response_type = "none"
    /\ time = <<>>
    /\ displacement = <<>>
    /\ x_steady = <<>>
    /\ env = <<>>
    /\ coeffs = None

\* np.linspace(0, stop, n), n >= 1: n points from 0 in steps of
\* stop / (n - 1), the last of them stop itself.
linspace(stop, n) ==
    IF n = 1 THEN <<0>>
    ELSE Bind(Div(stop, (n - 1) * ONE), LAMBDA step :
            [j \in 1..n |-> IF j = n THEN stop ELSE (j - 1) * step])

\* The default end time of the impulse and step responses: five damped
\* periods, or five time constants when zeta >= 1.
DefaultTEnd(sys) ==
    Bind(system_damping_ratio(sys), LAMBDA zeta :
        IF zeta < ONE
        THEN 5 * Div(2 * PI, damped_frequency(sys))
        ELSE Div(5 * ONE, Mul(zeta, natural_frequency(sys))))

\* The roots s1, s2 = -omega_n (zeta +- sqrt(zeta^2 - 1)) of an overdamped
\* oscillator.
Roots(omega_n, zeta) ==
    Bind(Sqrt(Sq(zeta) - ONE), LAMBDA sqrt_term :
        [s1 |-> -Mul(omega_n, zeta + sqrt_term),
         s2 |-> -Mul(omega_n, zeta - sqrt_term)])

\* The if/elif chain of compute_impulse_response (lines 42, 45, 47).
ImpulseBranch(zeta) ==
    IF zeta < ONE THEN "underdamped"
    ELSE IF zeta = ONE THEN "critical"
    ELSE "overdamped"

\* compute_impulse_response at one instant tj (lines 42-51).
ImpulseAt(sys, omega_n, zeta, tj) ==
    CASE ImpulseBranch(zeta) = "underdamped" ->
            Bind(damped_frequency(sys), LAMBDA omega_d :
                Mul(Mul(Div(ONE, Mul(sys.mass, omega_d)),
                        Exp(-Mul(Mul(zeta, omega_n), tj))),
                    Sin(Mul(omega_d, tj))))
      [] ImpulseBranch(zeta) = "critical" ->
            Mul(Mul(Div(ONE, sys.mass), tj), Exp(-Mul(omega_n, tj)))
      [] ImpulseBranch(zeta) = "overdamped" ->
            Bind(Roots(omega_n, zeta), LAMBDA rt :
                Mul(Div(ONE, Mul(sys.mass, rt.s2 - rt.s1)),
                    Exp(Mul(rt.s2, tj)) - Exp(Mul(rt.s1, tj))))

\* compute_impulse_response(system, t_end, n_points): (t, x)
compute_impulse_response(sys, t_end, n_points) ==
    Bind2(natural_frequency(sys), system_damping_ratio(sys),
          LAMBDA omega_n, zeta :
        Bind(linspace(TEndOr(t_end, DefaultTEnd(sys)), n_points), LAMBDA ts :
            [t |-> ts,
             x |-> [j \in 1..Len(ts) |-> ImpulseAt(sys, omega_n, zeta, ts[j])]]))

\* The coefficients A, B of the overdamped step response (lines 101-105).
StepCoeffs(omega_n, zeta) ==
    Bind(Roots(omega_n, zeta), LAMBDA rt :
        [s1 |-> rt.s1, s2 |-> rt.s2,
         A |-> Div(rt.s2, rt.s2 - rt.s1),
         B |-> Div(rt.s1, rt.s1 - rt.s2)])

\* The if/elif chain of compute_step_response (lines 93, 98, 100).
StepBranch(zeta) ==
    IF zeta < ONE THEN "underdamped"
    ELSE IF zeta = ONE THEN "critical"
    ELSE "overdamped"

\* compute_step_response at one instant tj (lines 93-106).
StepAt(sys, x_static, omega_n, zeta, tj) ==
    CASE StepBranch(zeta) = "underdamped" ->
            Bind(damped_frequency(sys), LAMBDA omega_d :
                Bind2(Exp(-Mul(Mul(zeta, omega_n), tj)),
                      Cos(Mul(omega_d, tj))
                      + Mul(Div(Mul(zeta, omega_n), omega_d),
                            Sin(Mul(omega_d, tj))),
                      LAMBDA envelope_decay, oscillation :
                    Mul(x_static, ONE - Mul(envelope_decay, oscillation))))
      [] StepBranch(zeta) = "critical" ->
            Mul(x_static,
                ONE - Mul(ONE + Mul(omega_n, tj), Exp(-Mul(omega_n, tj))))
      [] StepBranch(zeta) = "overdamped" ->
            Bind(StepCoeffs(omega_n, zeta), LAMBDA c :
                Mul(x_static,
                    ONE + Mul(c.A, Exp(Mul(c.s1, tj)))
                        + Mul(c.B, Exp(Mul(c.s2, tj)))))

\* compute_step_response(system, step_magnitude, t_end, n_points): (t, x)
compute_step_response(sys, step_magnitude, t_end, n_points) ==
    Bind2(natural_frequency(sys), system_damping_ratio(sys),
          LAMBDA omega_n, zeta :
        Bind2(linspace(TEndOr(t_end, DefaultTEnd(sys)), n_points),
              Div(step_magnitude, sys.stiffness), LAMBDA ts, x_static :
            [t |-> ts,
             x |-> [j \in 1..Len(ts) |->
                       StepAt(sys, x_static, omega_n, zeta, ts[j])]]))

\* A transient added to every underdamped response, asked for or not.
AddsTransientUnasked(include_transient, zeta) == zeta < ONE

\* "if include_transient and zeta < 1" (line 164)
AddsTransient(include_transient, zeta) == include_transient /\ zeta < ONE

\* The steady-state amplitude X, the phase lag phi and, when the transient
\* is included and zeta < 1, the transient coefficients A and B of
\* compute_harmonic_response (lines 153-178).
HarmonicCoeffs(sys, omega, force_amplitude, include_transient) ==
    Bind2(natural_frequency(sys), system_damping_ratio(sys),
          LAMBDA omega_n, zeta :
        Bind(Div(omega, omega_n), LAMBDA r :
            Bind2(Div(Div(force_amplitude, sys.stiffness),
                      Sqrt(Sq(ONE - Sq(r)) + Sq(Mul(2 * zeta, r)))),
                  Atan2(Mul(2 * zeta, r), ONE - Sq(r)), LAMBDA X, phi :
                IF AddsTransient(include_transient, zeta)
                THEN Bind2(damped_frequency(sys), -(-Mul(X, Sin(-phi))),
                           LAMBDA omega_d, A :
                        [transient |-> TRUE,
                         include_transient |-> include_transient,
                         omega |-> omega,
                         omega_n |-> omega_n, zeta |-> zeta, X |-> X,
                         phi |-> phi, omega_d |-> omega_d, A |-> A,
                         B |-> Div(-Mul(Mul(X, omega), Cos(-phi))
                                   + Mul(Mul(zeta, omega_n), A), omega_d)])
                ELSE [transient |-> FALSE,
                      include_transient |-> include_transient,
                      omega |-> omega,
                      omega_n |-> omega_n, zeta |-> zeta, X |-> X,
                      phi |-> phi])))

\* x_steady at one instant tj (line 162).
SteadyAt(c, tj) == Mul(c.X, Sin(Mul(c.omega, tj) - c.phi))

\* x_transient at one instant tj (line 180).
TransientAt(c, tj) ==
    Mul(Exp(-Mul(Mul(c.zeta, c.omega_n), tj)),
        Mul(c.A, Cos(Mul(c.omega_d, tj))) + Mul(c.B, Sin(Mul(c.omega_d, tj))))

\* The default end time of the harmonic response: ten periods of the faster
\* of the excitation and the oscillator.
DefaultHarmonicTEnd(sys, omega) ==
    10 * Div(2 * PI, Max2(omega, natural_frequency(sys)))

\* compute_harmonic_response: (t, x_total, x_steady), with the coefficients.
compute_harmonic_response(sys, excitation_freq, force_amplitude, t_end, n_points, freq_unit, include_transient) ==
    Bind(IF freq_unit = "hz" THEN Mul(2 * PI, excitation_freq)
         ELSE excitation_freq, LAMBDA omega :
        Bind2(HarmonicCoeffs(sys, omega, force_amplitude, include_transient),
              linspace(TEndOr(t_end, DefaultHarmonicTEnd(sys, omega)),
                       n_points), LAMBDA c, ts :
            Bind([j \in 1..Len(ts) |-> SteadyAt(c, ts[j])], LAMBDA steady :
                [t |-> ts,
                 x_total |-> IF c.transient
                             THEN [j \in 1..Len(ts) |->
                                      steady[j] + TransientAt(c, ts[j])]
                             ELSE steady,
                 x_steady |-> steady,
                 coeffs |-> c])))

\* compute_envelope(system, t, x0)
compute_envelope(sys, ts, x0) ==
    Bind(Mul(system_damping_ratio(sys), natural_frequency(sys)), LAMBDA rate :
        [j \in 1..Len(ts) |-> Mul(x0, Exp(-Mul(rate, ts[j])))])

\* Overdamped coefficients with x0 multiplying the wrong root in A.
FreeVibrationCoeffsCrossed(sys, omega_n, zeta, x0, v0) ==
    IF zeta < ONE
    THEN Bind(damped_frequency(sys), LAMBDA omega_d :
            [branch |-> "underdamped", x0 |-> x0, v0 |-> v0,
             A |-> x0,
             B |-> Div(v0 + Mul(Mul(zeta, omega_n), x0), omega_d),
             omega_d |-> omega_d, rate |-> Mul(zeta, omega_n)])
    ELSE IF isclose(zeta, ONE)
    THEN [branch |-> "critical", x0 |-> x0, v0 |-> v0,
          A |-> x0,
          B |-> v0 + Mul(omega_n, x0)]
    ELSE Bind(Roots(omega_n, zeta), LAMBDA rt :
            [branch |-> "overdamped", x0 |-> x0, v0 |-> v0,
             A |-> Div(Mul(x0, rt.s1) - v0, rt.s2 - rt.s1),
             B |-> Div(v0 - Mul(x0, rt.s1), rt.s2 - rt.s1),
             s1 |-> rt.s1, s2 |-> rt.s2])

\* The branch compute_free_vibration takes and its locals A and B (lines
\* 230-245), with omega_d (underdamped) or the roots s1, s2 (overdamped).
FreeVibrationCoeffs(sys, omega_n, zeta, x0, v0) ==
    IF zeta < ONE
    THEN Bind(damped_frequency(sys), LAMBDA omega_d :
            [branch |-> "underdamped", x0 |-> x0, v0 |-> v0,
             A |-> x0,
             B |-> Div(v0 + Mul(Mul(zeta, omega_n), x0), omega_d),
             omega_d |-> omega_d, rate |-> Mul(zeta, omega_n)])
    ELSE IF isclose(zeta, ONE)
    THEN [branch |-> "critical", x0 |-> x0, v0 |-> v0,
          A |-> x0,
          B |-> v0 + Mul(omega_n, x0)]
    ELSE Bind(Roots(omega_n, zeta), LAMBDA rt :
            [branch |-> "overdamped", x0 |-> x0, v0 |-> v0,
             A |-> Div(Mul(x0, rt.s2) - v0, rt.s2 - rt.s1),
             B |-> Div(v0 - Mul(x0, rt.s1), rt.s2 - rt.s1),
             s1 |-> rt.s1, s2 |-> rt.s2])

\* The expression for x of the branch c at one instant tj (lines 234, 238
\* and 245).
FreeVibrationAt(c, omega_n, tj) ==
    CASE c.branch = "underdamped" ->
            Mul(Exp(-Mul(c.rate, tj)),
                Mul(c.A, Cos(Mul(c.omega_d, tj)))
                + Mul(c.B, Sin(Mul(c.omega_d, tj))))
      [] c.branch = "critical" ->
            Mul(c.A + Mul(c.B, tj), Exp(-Mul(omega_n, tj)))
      [] c.branch = "overdamped" ->
            Mul(c.A, Exp(Mul(c.s1, tj))) + Mul(c.B, Exp(Mul(c.s2, tj)))

\* The locals of a compute_free_vibration call on the oscillator sys.
FreeVibrationLocals(sys, x0, v0) ==
    FreeVibrationCoeffs(sys, natural_frequency(sys), system_damping_ratio(sys),
                        x0, v0)

\* compute_free_vibration(system, time, initial_displacement, initial_velocity)
compute_free_vibration(sys, ts, x0, v0) ==
    Bind2(natural_frequency(sys), FreeVibrationLocals(sys, x0, v0),
          LAMBDA omega_n, c :
        [j \in 1..Len(ts) |-> FreeVibrationAt(c, omega_n, ts[j])])

\* decay_envelope(system, time, initial_amplitude)
decay_envelope(sys, ts, initial_amplitude) ==
    Bind(Mul(system_damping_ratio(sys), natural_frequency(sys)), LAMBDA rate :
        [j \in 1..Len(ts) |-> Mul(initial_amplitude, Exp(-Mul(rate, ts[j])))])

\* Oscillators the time responses are evaluated for: (m, k) = (1, 1),
\* (4, 1), (4, 4), damping ratio 0, 0.2, 0.6, 1 and 2.
TimeZetaSet == {0, 200000, 600000, ONE, 2 * ONE}

TimeSystems ==
    {from_damping_ratio(mk[1], mk[2], zeta) :
        mk \in {<<ONE, ONE>>, <<4 * ONE, ONE>>, <<4 * ONE, 4 * ONE>>},
        zeta \in TimeZetaSet}

\* End times: the default, 1 s and -1 s.
TEndSet == {NoTEnd, <<ONE>>, <<-ONE>>}

\* Step magnitudes and force amplitudes: 1 and 2 N.
ForceSet == {ONE, 2 * ONE}

\* Excitation frequencies: 0.1 and 0.25, in rad/s or in Hz.
ExcitationFreqs == {100000, 250000}

\* Time arrays a caller supplies: from -1 s or 0 s in steps of 0.25 s or
\* 0.5 s.
TimeArrays ==
    {[j \in 1..n |-> t0 + (j - 1) * step] :
        t0 \in {-ONE, 0}, step \in {250000, 500000}, n \in 1..MaxPoints}

\* Initial displacements and velocities of free vibration.
InitialDisplacements == {ONE, 2 * ONE}

InitialVelocities == {0, ONE}

\* Durations entered in the control panel: 1 s and 2 s.
DurationEntries == {ONE, 2 * ONE}

\* Points per second of the panel's time array (1000 in the program, a
\* millisecond apart; fewer here).
PointsPerSecond == 4

\* A call of compute_impulse_response.
ComputeImpulseResponse(t_end, n_points) ==
    /\ response_type = "none"
    /\ \E res \in {compute_impulse_response(system, t_end, n_points)} :
          /\ time' = res.t
          /\ displacement' = res.x
    /\ response_type' = "impulse"
    /\ x_steady' = <<>>
    /\ env' = <<>>
    /\ coeffs' = [branch |-> ImpulseBranch(system_damping_ratio(system))]

\* The locals of compute_step_response: x_static and, when the overdamped
\* branch runs, the roots and the coefficients A and B.
StepLocals(sys, step_magnitude) ==
    Bind2(natural_frequency(sys), system_damping_ratio(sys),
          LAMBDA omega_n, zeta :
        IF StepBranch(zeta) = "overdamped"
        THEN Bind(StepCoeffs(omega_n, zeta), LAMBDA c :
                [branch |-> "overdamped",
                 x_static |-> Div(step_magnitude, sys.stiffness),
                 s1 |-> c.s1, s2 |-> c.s2, A |-> c.A, B |-> c.B])
        ELSE [branch |-> StepBranch(zeta),
              x_static |-> Div(step_magnitude, sys.stiffness)])

\* A call of compute_step_response.
ComputeStepResponse(step_magnitude, t_end, n_points) ==
    /\ response_type = "none"
    /\ \E res \in {compute_step_response(system, step_magnitude, t_end,
                                         n_points)} :
          /\ time' = res.t
          /\ displacement' = res.x
    /\ response_type' = "step"
    /\ x_steady' = <<>>
    /\ env' = <<>>
    /\ coeffs' = StepLocals(system, step_magnitude)

\* A call of compute_harmonic_response.
ComputeHarmonicResponse(excitation_freq, force_amplitude, t_end, n_points, freq_unit, include_transient) ==
    /\ response_type = "none"
    /\ \E res \in {compute_harmonic_response(system, excitation_freq,
                       force_amplitude, t_end, n_points, freq_unit,
                       include_transient)} :
          /\ time' = res.t
          /\ displacement' = res.x_total
          /\ x_steady' = res.x_steady
          /\ coeffs' = res.coeffs
    /\ response_type' = "harmonic"
    /\ env' = <<>>

\* A call of compute_envelope.
ComputeEnvelope(ts, x0) ==
    /\ response_type = "none"
    /\ time' = ts
    /\ displacement' = compute_envelope(system, ts, x0)
    /\ response_type' = "envelope"
    /\ x_steady' = <<>>
    /\ env' = <<>>
    /\ coeffs' = None

\* A call of compute_free_vibration.
ComputeFreeVibration(ts, x0, v0) ==
    /\ response_type = "none"
    /\ time' = ts
    /\ displacement' = compute_free_vibration(system, ts, x0, v0)
    /\ response_type' = "free_vibration"
    /\ x_steady' = <<>>
    /\ env' = <<>>
    /\ coeffs' = FreeVibrationLocals(system, x0, v0)

\* A call of decay_envelope.
DecayEnvelope(ts, initial_amplitude) ==
    /\ response_type = "none"
    /\ time' = ts
    /\ displacement' = decay_envelope(system, ts, initial_amplitude)
    /\ response_type' = "decay_envelope"
    /\ x_steady' = <<>>
    /\ env' = <<>>
    /\ coeffs' = None

\* SDOFApp._calculate_time_response, branch "Free Vibration" (app.py lines
\* 173-176 and 229-233): the response for x0 = 1, v0 = 0 and its envelope.
CalculateFreeVibration(d) ==
    /\ response_type = "none"
    /\ \E ts \in {linspace(d, IntOf(d * PointsPerSecond))} :
          /\ time' = ts
          /\ displacement' = compute_free_vibration(system, ts, ONE, 0)
          /\ env' = decay_envelope(system, ts, ONE)
    /\ response_type' = "Free Vibration"
    /\ x_steady' = <<>>
    /\ coeffs' = FreeVibrationLocals(system, ONE, 0)

(***************************************************************************)
(* transmissibility.py                                                     *)
(***************************************************************************)
\* Most frequency ratios in one array.
MaxRatios == 2

\* Damping ratios: 0, 0.05, 0.2, 0.7, 1 and 2.
TransZetaSet == {0, 50000, 200000, 700000, ONE, 2 * ONE}

\* Frequency ratios besides the crossover: 0.5, 1 (resonance) and 2.
RatioSet == {500000, ONE, 2 * ONE}

\* C10 mutant: the numerator without its damping term.
NumeratorUndamped(zeta, r) == ONE

\* numerator = 1 + (2 * zeta * r)**2
Numerator(zeta, r) == ONE + Sq(Mul(2 * zeta, r))

\* denominator = (1 - r**2)**2 + (2 * zeta * r)**2
Denominator(zeta, r) == Sq(ONE - Sq(r)) + Sq(Mul(2 * zeta, r))

\* TR = np.sqrt(numerator / denominator) at one ratio r; the division by a
\* zero denominator (zeta = 0 at r = 1) leaves inf.
TransmissibilityAt(zeta, r) ==
    Bind2(Numerator(zeta, r), Denominator(zeta, r), LAMBDA num, den :
        IF den = 0 THEN Inf ELSE Sqrt(Div(num, den)))

\* compute_transmissibility_normalized(zeta, frequency_ratios)
compute_transmissibility_normalized(zeta, rs) ==
    [j \in 1..Len(rs) |-> TransmissibilityAt(zeta, rs[j])]

\* find_crossover_frequency(): np.sqrt(2)
find_crossover_frequency == Sqrt(2 * ONE)

\* A call of find_crossover_frequency.
FindCrossoverFrequency ==
    /\ crossover = <<>>
    /\ crossover' = <<find_crossover_frequency>>
    /\ UNCHANGED <<tr_zeta, frequency_ratios, TR>>

\* A call of compute_transmissibility_normalized on ratios the caller chose,
\* the crossover ratio among them once it is known.
ComputeTransmissibilityNormalized(zeta, rs) ==
    /\ TR = <<>>
    /\ \A j \in 1..Len(rs) : rs[j] \in RatioSet \/ <<rs[j]>> = crossover
    /\ tr_zeta' = zeta
    /\ frequency_ratios' = rs
    /\ TR' = compute_transmissibility_normalized(zeta, rs)
    /\ UNCHANGED crossover

\* Before any transmissibility is computed.
TransIdle ==
    /\ crossover = <<>>
    /\ tr_zeta = 0
    /\ frequency_ratios = <<>>
    /\ TR = <<>>

(***************************************************************************)
(* frequency_response.py, transmissibility.py: the sweeps of the window    *)
(***************************************************************************)
\* np.linspace(start, stop, n)
linspace_from(start, stop, n) ==
    IF n = 1 THEN <<start>>
    ELSE Bind(Div(stop - start, (n - 1) * ONE), LAMBDA step :
            [j \in 1..n |-> IF j = n THEN stop ELSE start + (j - 1) * step])

\* np.logspace(start, stop, n): 10 ** np.linspace(start, stop, n)
logspace(start, stop, n) ==
    Bind(linspace_from(start, stop, n), LAMBDA ys :
        [j \in 1..Len(ys) |-> Pow10(ys[j])])

\* compute_frf at one frequency f in Hz (lines 27-47), for a denominator
\* that is not zero: the magnitude in dB and the phase in degrees.
FrfAt(sys, f) ==
    Bind(Mul(2 * PI, f), LAMBDA omega :
        Bind2(sys.stiffness - Mul(sys.mass, Sq(omega)), Mul(sys.damping, omega),
              LAMBDA re, im :
            [magnitude_db |->
                 20 * Log10(Mul(Div(ONE, Sqrt(Sq(re) + Sq(im))), sys.stiffness)),
             phase_deg |-> Degrees(Atan2(-im, re))]))

\* compute_frf(system, frequencies): (magnitude_db, phase_deg, H), of which
\* the window keeps the first two.
compute_frf(sys, fs) ==
    Bind([j \in 1..Len(fs) |-> FrfAt(sys, fs[j])], LAMBDA H :
        [magnitude_db |-> [j \in 1..Len(fs) |-> H[j].magnitude_db],
         phase_deg |-> [j \in 1..Len(fs) |-> H[j].phase_deg]])

\* SDOFSystem.natural_frequency_hz
natural_frequency_hz(sys) == Div(natural_frequency(sys), 2 * PI)

\* compute_transmissibility(system, frequencies, freq_unit): (r, TR)
compute_transmissibility(sys, fs, freq_unit) ==
    Bind2(natural_frequency(sys), system_damping_ratio(sys),
          LAMBDA omega_n, zeta :
        Bind([j \in 1..Len(fs) |->
                 Div(IF freq_unit = "hz" THEN Mul(2 * PI, fs[j]) ELSE fs[j],
                     omega_n)], LAMBDA r :
            [r |-> r, TR |-> compute_transmissibility_normalized(zeta, r)]))

(***************************************************************************)
(* app.py, control_panel.py: the Calculate button                          *)
(***************************************************************************)
\* A numpy array of ndim dimensions: its rows, nested ndim deep.
ndarray(ndim, data) == [type |-> "ndarray", ndim |-> ndim, data |-> data]

\* A Python tuple of values.
tuple(items) == [type |-> "tuple", ndim |-> 0, data |-> items]

\* The entries of the input panel the model types in: two oscillators
\* (m = 1, k = 1, c = 0.4 and m = 4, k = 1, zeta = 2, the latter entered
\* as the ratio 2 and as the coefficient 8) and entries with a zero mass, a
\* negative stiffness and a negative damping.
Entry(m, k, d, use_ratio) ==
    [mass |-> m, stiffness |-> k, damping |-> d, use_ratio |-> use_ratio]

AppEntries ==
    {Entry(ONE, ONE, 400000, FALSE), Entry(4 * ONE, ONE, 2 * ONE, TRUE),
     Entry(4 * ONE, ONE, 8 * ONE, FALSE), Entry(0, ONE, 400000, FALSE), Entry(ONE, -ONE, 400000, FALSE),
     Entry(ONE, ONE, -400000, FALSE)}

\* The option entries of the control panel for one analysis type.
Controls(analysis, f_min, f_max, n, multi, rtype, d, exf) ==
    [analysis_type |-> analysis, freq_min |-> f_min, freq_max |-> f_max,
     n_points |-> n, multi_zeta |-> multi, response_type |-> rtype,
     duration |-> d, excitation_freq |-> exf]

\* Sweeps from 0.1 to 0.2 Hz, from 0.2 down to 0.1 Hz and from 0.2 to 0.2 Hz.
FrequencyControls ==
    {Controls("Frequency Response", f[1], f[2], f[3], FALSE, "Impulse", ONE,
              250000) :
        f \in {<<100000, 200000, 3>>, <<200000, 100000, 3>>,
               <<200000, 200000, 2>>}}

TransmissibilityControls ==
    {Controls("Transmissibility", f[1], f[2], 3, f[3], "Impulse", ONE, 250000) :
        f \in {<<100000, 200000, FALSE>>, <<200000, 100000, FALSE>>,
               <<100000, 200000, TRUE>>}}

\* Time responses of 1 s and 2 s (4 and 8 instants).
TimeControls ==
    {Controls("Time Response", 100000, 200000, 3, FALSE, r[1], r[2], 250000) :
        r \in {<<"Impulse", 2 * ONE>>, <<"Step", ONE>>, <<"Step", 2 * ONE>>,
               <<"Harmonic", ONE>>, <<"Free Vibration", 2 * ONE>>}}

ControlSettings == FrequencyControls \cup TransmissibilityControls \cup TimeControls

\* What a branch of _on_calculate leaves behind: _current_data and the title
\* of the error box, <<>> when the branch returned normally.
Outcome(data, box) == [data |-> data, box |-> box]

\* ax.plot / ax.semilogx / ax.semilogy(x, y) of matplotlib raises ValueError
\* unless y has at most two dimensions and as many rows as x has entries.
PlotRaises(xlen, yshape) == Len(yshape) > 2 \/ yshape[1] # xlen

\* The fewest and the most points validate_frequency_range accepts.
MinSweepPoints == 10

MaxSweepPoints == 100000

\* validate_frequency_range(f_min, f_max, n_points): the validated triple,
\* <<>> when it raises ValidationError. Nothing in src/gui calls it.
validate_frequency_range(f_min, f_max, n_points) ==
    IF f_min <= 0 \/ f_max <= 0 THEN <<>>
    ELSE IF f_max <= f_min THEN <<>>
    ELSE IF n_points < MinSweepPoints \/ n_points > MaxSweepPoints THEN <<>>
    ELSE <<f_min, f_max, n_points>>

\* SDOFApp._calculate_frequency_response: no check of the range precedes
\* np.logspace.
calculate_frequency_response(sys, c) ==
    Bind(logspace(Log10(c.freq_min), Log10(c.freq_max), c.n_points),
         LAMBDA fs :
        Bind(compute_frf(sys, fs), LAMBDA frf :
            Outcome([type |-> "frequency_response",
                     frequencies |-> ndarray(1, fs),
                     magnitude_db |-> ndarray(1, frf.magnitude_db),
                     phase_deg |-> ndarray(1, frf.phase_deg)], <<>>)))

\* The points of a transmissibility sweep (500 in the source).
TransmissibilityPoints == 3

\* zeta_values of the multi-curve branch.
zeta_values == <<50000, 100000, 200000, 300000, 500000, 700000, ONE>>

\* SDOFApp._calculate_transmissibility once get_frequency_range has
\* returned: the multi-curve branch, or the single curve, whose
\* 'transmissibility' is the tuple (r, TR) that compute_transmissibility
\* returns and which plot_transmissibility cannot draw.
calculate_transmissibility(sys, c) ==
    Bind(linspace_from(c.freq_min, c.freq_max, TransmissibilityPoints),
         LAMBDA fs :
        IF c.multi_zeta
        THEN Bind([j \in 1..Len(fs) |-> Div(fs[j], natural_frequency_hz(sys))],
                  LAMBDA r :
                Outcome([type |-> "transmissibility_multi",
                         frequencies |-> ndarray(1, fs),
                         curves |->
                             [z \in 1..Len(zeta_values) |->
                                 tuple(<<zeta_values[z],
                                         ndarray(1,
                                             compute_transmissibility_normalized(
                                                 zeta_values[z], r))>>)]],
                        <<>>))
        ELSE Bind(compute_transmissibility(sys, fs, "rad/s"), LAMBDA res :
                Outcome([type |-> "transmissibility",
                         frequencies |-> ndarray(1, fs),
                         transmissibility |->
                             tuple(<<ndarray(1, res.r), ndarray(1, res.TR)>>)],
                        IF PlotRaises(Len(fs), <<2, Len(fs)>>)
                        THEN <<"Error">> ELSE <<>>)))

\* The default n_points of the time responses (1000 in the source, the
\* number of points the window takes per second).
n_points_default == PointsPerSecond

\* np.linspace(0, stops, n) for an array of stops: n rows, one column per
\* stop.
linspace_rows(stops, n) ==
    Bind([i \in 1..Len(stops) |-> linspace(stops[i], n)], LAMBDA cols :
        [j \in 1..n |-> [i \in 1..Len(stops) |-> cols[i][j]]])

\* np.max(np.abs(rows)) of a two-dimensional array with entries.
MaxAbs2(rows) == SeqMax([j \in 1..Len(rows) |-> SeqMax(SeqAbs(rows[j]))])

\* The "Impulse" branch: compute_impulse_response(self._system, time), with
\* the time array as t_end, returns the tuple (t, x) of two arrays of
\* n_points rows; it is stored as 'displacement' and cannot be drawn.
calculate_impulse(sys, ts) ==
    Bind2(natural_frequency(sys), system_damping_ratio(sys),
          LAMBDA omega_n, zeta :
        Bind(linspace_rows(ts, n_points_default), LAMBDA t2 :
            Bind([j \in 1..Len(t2) |->
                     [i \in 1..Len(ts) |->
                         ImpulseAt(sys, omega_n, zeta, t2[j][i])]], LAMBDA x2 :
                Bind(decay_envelope(sys, ts, Max2(MaxAbs2(t2), MaxAbs2(x2))),
                     LAMBDA envelope :
                    Outcome([type |-> "time_response",
                             response_type |-> "Impulse Response",
                             time |-> ndarray(1, ts),
                             displacement |->
                                 tuple(<<ndarray(2, t2), ndarray(2, x2)>>)],
                            IF PlotRaises(Len(ts),
                                          <<2, n_points_default, Len(ts)>>)
                            THEN <<"Error">> ELSE <<>>)))))

\* The "Step" branch: compute_step_response(self._system, time), with the
\* time array as step_magnitude, multiplies an array of len(time) static
\* deflections with the n_points values of the default time grid, which
\* raises ValueError unless the lengths agree (or one of them is 1); the
\* tuple (t, x) it returns otherwise is stored as 'displacement'.
calculate_step(sys, ts, old) ==
    IF Len(ts) # n_points_default /\ Len(ts) # 1 /\ n_points_default # 1
    THEN Outcome(old, <<"Error">>)
    ELSE Bind2(natural_frequency(sys), system_damping_ratio(sys),
               LAMBDA omega_n, zeta :
            Bind(linspace(DefaultTEnd(sys), n_points_default), LAMBDA grid :
                Bind([j \in 1..Max2(Len(ts), Len(grid)) |->
                         StepAt(sys,
                                Div(ts[IF Len(ts) = 1 THEN 1 ELSE j],
                                    sys.stiffness),
                                omega_n, zeta,
                                grid[IF Len(grid) = 1 THEN 1 ELSE j])],
                     LAMBDA x :
                    Outcome([type |-> "time_response",
                             response_type |-> "Step Response",
                             time |-> ndarray(1, ts),
                             displacement |->
                                 tuple(<<ndarray(1, grid), ndarray(1, x)>>)],
                            IF PlotRaises(Len(ts), <<2, Len(x)>>)
                            THEN <<"Error">> ELSE <<>>))))

\* The "Harmonic" branch: compute_harmonic_response(self._system, time,
\* excitation_freq), with the time array as excitation_freq, evaluates
\* max(omega, omega_n) on an array, which raises ValueError for every time
\* array of more than one entry (durations of at least two points).
calculate_harmonic(sys, ts, exf, old) == Outcome(old, <<"Error">>)

\* The "Free Vibration" branch: the response for x0 = 1, v0 = 0 on the
\* window's time array.
calculate_free_vibration(sys, ts) ==
    Outcome([type |-> "time_response",
             response_type |-> "Free Vibration",
             time |-> ndarray(1, ts),
             displacement |-> ndarray(1, compute_free_vibration(sys, ts, ONE, 0))],
            <<>>)

\* SDOFApp._calculate_time_response (durations of at least one point).
calculate_time_response(sys, c, old) ==
    Bind(linspace(c.duration, IntOf(c.duration * PointsPerSecond)), LAMBDA ts :
        CASE c.response_type = "Impulse" -> calculate_impulse(sys, ts)
          [] c.response_type = "Step" -> calculate_step(sys, ts, old)
          [] c.response_type = "Harmonic" ->
                calculate_harmonic(sys, ts, c.excitation_freq, old)
          [] c.response_type = "Free Vibration" ->
                calculate_free_vibration(sys, ts)
          [] OTHER -> Outcome(old, <<>>))

\* The power of ten p with x < 10000 p: the weight of the fourth significant
\* digit of x.
RECURSIVE FourthDigit(_, _)
FourthDigit(x, p) == IF x < 10000 * p THEN p ELSE FourthDigit(x, 10 * p)

\* The text f"{x:.4g}" read back as a number, for x >= 0: x rounded to four
\* significant digits.
Format4g(x) ==
    Bind(FourthDigit(x, 1), LAMBDA p : ((x + p \div 2) \div p) * p)

\* The text the toggle leaves in the damping entry: get_system is asked with
\* the new mode already set, and its ratio (mode "Ratio") or coefficient is
\* formatted; entries it rejects are replaced by "0.1" or "20".
ToggledDamping(e, use_ratio) ==
    IF EntriesValid(e.mass, e.stiffness, e.damping)
    THEN Bind(get_system(e.mass, e.stiffness, e.damping, use_ratio), LAMBDA sys :
            Format4g(IF use_ratio THEN system_damping_ratio(sys)
                     ELSE sys.damping))
    ELSE IF use_ratio THEN ONE \div 10 ELSE 20 * ONE

\* InputPanel._on_damping_type_changed(value), called when the selection of
\* the Coefficient/Ratio switch changes.
OnDampingTypeChanged(value) ==
    /\ entries # None
    /\ entries.use_ratio # (value = "Ratio")
    /\ \E d \in {ToggledDamping(entries, value = "Ratio")} :
          /\ entries' = [entries EXCEPT !.damping = d,
                                        !.use_ratio = (value = "Ratio")]
          /\ UpdateDerivedValues(entries.mass, entries.stiffness, d,
                                 value = "Ratio")
    /\ UNCHANGED <<controls, current_data, messagebox, widgets, export_log,
                   data_system>>

\* Typing into the entries of the input panel, which ends in
\* _update_derived_values; the mode is the one the switch shows (the first
\* edit of a new panel stands for the panel set up in either mode).
OnParameterChanged(e) ==
    /\ entries # None => e.use_ratio = entries.use_ratio
    /\ entries' = e
    /\ UpdateDerivedValues(e.mass, e.stiffness, e.damping, e.use_ratio)
    /\ UNCHANGED <<controls, current_data, messagebox, widgets, export_log,
                   data_system>>

\* The attributes of the control panel that hold option widgets (and the
\* BooleanVar of the check box).
OptionWidgets ==
    {"freq_min_entry", "freq_max_entry", "n_points_entry", "multi_zeta_var",
     "time_response_type", "duration_entry", "excitation_freq_entry"}

\* The attributes each _setup_*_options method assigns.
CreatedBy(analysis) ==
    CASE analysis = "Frequency Response" ->
            {"freq_min_entry", "freq_max_entry", "n_points_entry"}
      [] analysis = "Transmissibility" ->
            {"freq_min_entry", "freq_max_entry", "multi_zeta_var"}
      [] analysis = "Time Response" ->
            {"time_response_type", "duration_entry", "excitation_freq_entry"}

\* _clear_options followed by the creation of the options of one analysis:
\* the children of the options frame are destroyed (the attributes keep
\* referring to them), the BooleanVar is no child and stays, and the
\* attributes assigned anew refer to fresh widgets.
SetupOptions(analysis, w) ==
    [a \in OptionWidgets |->
        IF a \in CreatedBy(analysis) THEN "fresh"
        ELSE IF w[a] = "absent" THEN "absent"
        ELSE IF a = "multi_zeta_var" THEN "stale"
        ELSE "destroyed"]

\* The attributes the handler of Calculate reads for one analysis type:
\* get_frequency_range (and get_multi_zeta) or get_time_parameters.
WidgetsRead(analysis) ==
    CASE analysis = "Frequency Response" ->
            {"freq_min_entry", "freq_max_entry", "n_points_entry"}
      [] analysis = "Transmissibility" ->
            {"freq_min_entry", "freq_max_entry", "n_points_entry",
             "multi_zeta_var"}
      [] analysis = "Time Response" ->
            {"time_response_type", "duration_entry", "excitation_freq_entry"}

\* Choosing an analysis type (_on_analysis_type_changed sets up its options)
\* and filling in its options.
OnControlsChanged(c) ==
    /\ controls' = c
    /\ widgets' = IF c.analysis_type # controls.analysis_type
                  THEN SetupOptions(c.analysis_type, widgets)
                  ELSE widgets
    /\ UNCHANGED <<entries, current_data, messagebox, export_log, data_system,
                   oscVars>>

\* The outcomes of the analysis that _on_calculate dispatches to. The
\* Points entry that get_frequency_range reads was destroyed when the
\* Transmissibility options replaced the Frequency Response ones: the read
\* raises, or yields the entry's last text.
Analyses(sys, c, old) ==
    CASE c.analysis_type = "Frequency Response" ->
            {calculate_frequency_response(sys, c)}
      [] c.analysis_type = "Transmissibility" ->
            {Outcome(old, <<"Error">>), calculate_transmissibility(sys, c)}
      [] c.analysis_type = "Time Response" ->
            {calculate_time_response(sys, c, old)}
      [] OTHER -> {Outcome(old, <<>>)}

\* SDOFApp._on_calculate: get_system raises ValidationError on entries that
\* fail validation, before self._system is assigned; otherwise the analysis
\* of the selected type runs.
OnCalculate ==
    /\ IF ~EntriesValid(entries.mass, entries.stiffness, entries.damping)
       THEN /\ messagebox' = <<"Validation Error">>
            /\ UNCHANGED <<system, current_data>>
       ELSE /\ system' = get_system(entries.mass, entries.stiffness,
                                    entries.damping, entries.use_ratio)
            /\ \E res \in Analyses(system', controls, current_data) :
                  /\ current_data' = res.data
                  /\ messagebox' = res.box
    /\ data_system' = IF current_data' = current_data /\ messagebox' # <<>>
                      THEN data_system
                      ELSE system'
    /\ UNCHANGED <<entries, controls, damping_type_label, widgets, export_log>>

\* What an export handler did: whether it opened the save dialog and the
\* file it wrote, None when it wrote none.
ExportLog(handler, dialog, file) ==
    [handler |-> handler, dialog |-> dialog, file |-> file]

\* Paths the save dialog returns: "" when it is cancelled.
ExportPaths == {"", "out"}

\* An export of the plot that does not look at _current_data first.
OnExportPlotUnguarded(filepath) ==
    /\ IF filepath = ""
       THEN /\ export_log' = ExportLog("plot", TRUE, None)
            /\ UNCHANGED messagebox
       ELSE /\ export_log' = ExportLog("plot", TRUE, [path |-> filepath])
            /\ messagebox' = <<"Success">>
    /\ UNCHANGED <<entries, controls, current_data, widgets, data_system,
                   oscVars>>

\* SDOFApp._on_export_plot: the figure of the plot panel saved under the
\* path of the dialog.
OnExportPlot(filepath) ==
    /\ IF current_data = None
       THEN /\ messagebox' = <<"No Data">>
            /\ export_log' = ExportLog("plot", FALSE, None)
       ELSE IF filepath = ""
       THEN /\ export_log' = ExportLog("plot", TRUE, None)
            /\ UNCHANGED messagebox
       ELSE /\ export_log' = ExportLog("plot", TRUE, [path |-> filepath])
            /\ messagebox' = <<"Success">>
    /\ UNCHANGED <<entries, controls, current_data, widgets, data_system,
                   oscVars>>

\* Whether export_data writes every row: it writes len(first column) rows
\* and indexes each column with the row number, which raises IndexError on
\* the two-entry tuples stored as 'transmissibility' or 'displacement'.
RowsWritten(data) ==
    CASE data.type = "frequency_response" -> TRUE
      [] data.type = "transmissibility" -> Len(data.frequencies.data) <= 2
      [] data.type = "transmissibility_multi" -> TRUE
      [] data.type = "time_response" ->
            Len(data.time.data) <= Len(data.displacement.data)

\* SDOFApp._on_export_data: system_info is read from self._system, and
\* export_data writes it as the comment header of the file before the rows
\* of _current_data.
OnExportData(filepath) ==
    /\ IF current_data = None
       THEN /\ messagebox' = <<"No Data">>
            /\ export_log' = ExportLog("data", FALSE, None)
       ELSE IF filepath = ""
       THEN /\ export_log' = ExportLog("data", TRUE, None)
            /\ UNCHANGED messagebox
       ELSE /\ export_log' =
                  ExportLog("data", TRUE,
                            [path |-> filepath,
                             system_info |-> system,
                             data_type |-> current_data.type,
                             computed_from |-> data_system,
                             complete |-> RowsWritten(current_data)])
            /\ messagebox' = IF RowsWritten(current_data) THEN <<"Success">>
                             ELSE <<"Export Error">>
    /\ UNCHANGED <<entries, controls, current_data, widgets, data_system,
                   oscVars>>

\* The application group before any window exists.
AppIdle ==
    /\ entries = None
    /\ controls = None
    /\ current_data = None
    /\ messagebox = <<>>
    /\ widgets = None
    /\ export_log = None
    /\ data_system = None

(***************************************************************************)
(* Specifications                                                          *)
(***************************************************************************)
\* A caller's record, time step and damping ratio; nothing computed yet.
SrsInit ==
    /\ base_accel \in BaseRecords
    /\ dt \in DtSet
    /\ damping_ratio \in SrsZetaSet
    /\ frequencies = <<>>
    /\ srs_pc = "idle"
    /\ shock_end_idx = 0
    /\ srs_i = 0
    /\ maxi_max = <<>>
    /\ primary_pos = <<>>
    /\ primary_neg = <<>>
    /\ residual_pos = <<>>
    /\ residual_neg = <<>>
    /\ srs_result = None
    /\ srs_prev = None
    /\ PulseIdle
    /\ OscIdle
    /\ TimeIdle
    /\ TransIdle
    /\ AppIdle

SrsNext ==
    \/ (\E f \in SeqsOf(FreqSet, 0, MaxFreqs) : CallComputeSrs(f))
            /\ UNCHANGED exceptSrs
    \/ SrsLoopBody /\ UNCHANGED exceptSrs
    \/ SrsReturn /\ UNCHANGED exceptSrs

\* The shock-spectrum engine on a caller's record.
SpecSrs == SrsInit /\ [][SrsNext]_vars

SrsPulseInit ==
    SrsIdle /\ PulseIdle /\ OscIdle /\ TimeIdle /\ TransIdle /\ AppIdle

SrsPulseNext ==
    \/ \E kind \in SrsPulseTypes, D \in DurationSet,
          f \in SeqsOf(PulseFreqSet, 1, MaxFreqs), zeta \in SrsZetaSet :
          CallComputeSrsFromPulse(kind, D, ONE, f, zeta)
              /\ UNCHANGED <<oscVars, timeVars, transVars, appVars>>
    \/ SrsLoopBody /\ UNCHANGED exceptSrs
    \/ SrsReturn /\ UNCHANGED exceptSrs

\* The shock-spectrum engine on a pulse it generates itself.
SpecSrsPulse == SrsPulseInit /\ [][SrsPulseNext]_vars

PulseInit ==
    PulseIdle /\ SrsIdle /\ OscIdle /\ TimeIdle /\ TransIdle /\ AppIdle

PulseNext ==
    \E kind \in PulseTypes, D \in DurationSet, A \in AmplitudeSet,
       h \in PulseDtSet :
        GenerateShockPulse(kind, D, A, h) /\ UNCHANGED exceptPulse

\* The pulse generator on a caller's kind, duration, amplitude and time step.
SpecPulse == PulseInit /\ [][PulseNext]_vars

OscInit ==
    OscIdle /\ SrsIdle /\ PulseIdle /\ TimeIdle /\ TransIdle /\ AppIdle

OscNext ==
    \/ \E m \in MassEntries, k \in StiffnessEntries, d \in DampingEntries,
          use_ratio \in BOOLEAN :
          OnParameterChanged(Entry(m, k, d, use_ratio)) /\ UNCHANGED exceptApp
    \/ \E value \in {"Coefficient", "Ratio"} :
          OnDampingTypeChanged(value) /\ UNCHANGED exceptApp

\* The input panel re-deriving the oscillator after each edit of its entries
\* and each change of its damping mode.
SpecOsc == OscInit /\ [][OscNext]_vars

\* An oscillator the panel has derived; no response evaluated yet.
TimeInit ==
    /\ system \in TimeSystems
    /\ damping_type_label = DampingTypeText(system)
    /\ TimeIdle
    /\ SrsIdle
    /\ PulseIdle
    /\ TransIdle
    /\ AppIdle

TimeNext ==
    \/ \E t_end \in TEndSet, n \in 1..MaxPoints :
          ComputeImpulseResponse(t_end, n) /\ UNCHANGED exceptTime
    \/ \E f \in ForceSet, t_end \in TEndSet, n \in 1..MaxPoints :
          ComputeStepResponse(f, t_end, n) /\ UNCHANGED exceptTime
    \/ \E w \in ExcitationFreqs, f \in ForceSet, t_end \in TEndSet,
          n \in 1..MaxPoints, unit \in {"rad/s", "hz"}, tr \in BOOLEAN :
          ComputeHarmonicResponse(w, f, t_end, n, unit, tr)
              /\ UNCHANGED exceptTime
    \/ \E ts \in TimeArrays, x0 \in InitialDisplacements :
          ComputeEnvelope(ts, x0) /\ UNCHANGED exceptTime
    \/ \E ts \in TimeArrays, x0 \in InitialDisplacements,
          v0 \in InitialVelocities :
          ComputeFreeVibration(ts, x0, v0) /\ UNCHANGED exceptTime
    \/ \E ts \in TimeArrays, a0 \in InitialDisplacements :
          DecayEnvelope(ts, a0) /\ UNCHANGED exceptTime
    \/ \E d \in DurationEntries :
          CalculateFreeVibration(d) /\ UNCHANGED exceptTime

\* The time responses of an oscillator.
SpecTime == TimeInit /\ [][TimeNext]_vars

\* Damping ratios well inside each regime, at 1 and just below and above 1:
\* 0.6, 0.999995, 1, 1.000005 and 2.
RegimeZetaSet == {600000, 999995, ONE, 1000005, 2 * ONE}

\* An oscillator the panel has derived, possibly next to critical damping;
\* no response evaluated yet.
RegimeInit ==
    /\ system \in {from_damping_ratio(mk[1], mk[2], zeta) :
                      mk \in {<<ONE, ONE>>, <<4 * ONE, ONE>>},
                      zeta \in RegimeZetaSet}
    /\ damping_type_label = DampingTypeText(system)
    /\ TimeIdle
    /\ SrsIdle
    /\ PulseIdle
    /\ TransIdle
    /\ AppIdle

RegimeNext ==
    \/ \E t_end \in TEndSet \ {NoTEnd}, n \in 1..MaxPoints :
          ComputeImpulseResponse(t_end, n) /\ UNCHANGED exceptTime
    \/ \E f \in ForceSet, t_end \in TEndSet \ {NoTEnd}, n \in 1..MaxPoints :
          ComputeStepResponse(f, t_end, n) /\ UNCHANGED exceptTime
    \/ \E ts \in TimeArrays, x0 \in InitialDisplacements,
          v0 \in InitialVelocities :
          ComputeFreeVibration(ts, x0, v0) /\ UNCHANGED exceptTime

\* The three responses that branch on the damping regime, over the regimes
\* and their borders.
SpecRegime == RegimeInit /\ [][RegimeNext]_vars

TransInit ==
    TransIdle /\ SrsIdle /\ PulseIdle /\ OscIdle /\ TimeIdle /\ AppIdle

TransNext ==
    \/ FindCrossoverFrequency /\ UNCHANGED exceptTrans
    \/ \E zeta \in TransZetaSet,
          rs \in SeqsOf(RatioSet \cup {find_crossover_frequency}, 1, MaxRatios) :
          ComputeTransmissibilityNormalized(zeta, rs) /\ UNCHANGED exceptTrans

\* Transmissibility curves and their crossover.
SpecTrans == TransInit /\ [][TransNext]_vars

\* The window after construction: valid entries, the oscillator derived from
\* them, the Frequency Response options, nothing calculated.
AppInit ==
    /\ entries \in {e \in AppEntries : EntriesValid(e.mass, e.stiffness, e.damping)}
    /\ system = get_system(entries.mass, entries.stiffness, entries.damping,
                           entries.use_ratio)
    /\ damping_type_label = DampingTypeText(system)
    /\ controls \in FrequencyControls
    /\ current_data = None
    /\ messagebox = <<>>
    /\ widgets = SetupOptions("Frequency Response",
                              [a \in OptionWidgets |-> "absent"])
    /\ export_log = None
    /\ data_system = None
    /\ SrsIdle
    /\ PulseIdle
    /\ TimeIdle
    /\ TransIdle

AppNext ==
    \/ \E e \in AppEntries : OnParameterChanged(e) /\ UNCHANGED exceptApp
    \/ \E c \in ControlSettings : OnControlsChanged(c) /\ UNCHANGED exceptApp
    \/ OnCalculate /\ UNCHANGED exceptApp

\* The window: edits of the entries, choices of the analysis and clicks on
\* Calculate.
SpecApp == AppInit /\ [][AppNext]_vars

\* Entries typed into the window that also switches its damping mode and
\* exports: two oscillators and a zero mass, typed in mode "Coefficient".
WindowEntries ==
    {Entry(ONE, ONE, 400000, FALSE), Entry(4 * ONE, ONE, 400000, FALSE),
     Entry(0, ONE, 400000, FALSE)}

\* Its analyses: a sweep from 0.1 to 0.2 Hz, a harmonic response (which
\* fails) and a free vibration of 2 s.
WindowControls ==
    {Controls("Frequency Response", 100000, 200000, 3, FALSE, "Impulse", ONE,
              250000),
     Controls("Time Response", 100000, 200000, 3, FALSE, "Harmonic", ONE,
              250000),
     Controls("Time Response", 100000, 200000, 3, FALSE, "Free Vibration",
              2 * ONE, 250000)}

\* The window as it starts: valid entries in mode "Coefficient", the options
\* of "Frequency Response", nothing calculated.
WindowInit ==
    /\ entries = Entry(ONE, ONE, 400000, FALSE)
    /\ system = get_system(entries.mass, entries.stiffness, entries.damping,
                           entries.use_ratio)
    /\ damping_type_label = DampingTypeText(system)
    /\ controls = Controls("Frequency Response", 100000, 200000, 3, FALSE,
                           "Impulse", ONE, 250000)
    /\ current_data = None
    /\ messagebox = <<>>
    /\ widgets = SetupOptions("Frequency Response",
                              [a \in OptionWidgets |-> "absent"])
    /\ export_log = None
    /\ data_system = None
    /\ SrsIdle
    /\ PulseIdle
    /\ TimeIdle
    /\ TransIdle

WindowNext ==
    \/ \E e \in WindowEntries : OnParameterChanged(e) /\ UNCHANGED exceptApp
    \/ \E value \in {"Coefficient", "Ratio"} :
          OnDampingTypeChanged(value) /\ UNCHANGED exceptApp
    \/ \E c \in WindowControls : OnControlsChanged(c) /\ UNCHANGED exceptApp
    \/ OnCalculate /\ UNCHANGED exceptApp
    \/ \E filepath \in ExportPaths :
          OnExportPlot(filepath) /\ UNCHANGED exceptApp
    \/ \E filepath \in ExportPaths :
          OnExportData(filepath) /\ UNCHANGED exceptApp

\* The window with every handler: edits, damping-mode switches, choices of
\* the analysis, Calculate and the two exports.
SpecWindow == WindowInit /\ [][WindowNext]_vars

(***************************************************************************)
(* Properties of compute_srs                                               *)
(***************************************************************************)
\* C1: at every index of a returned spectrum, maxi_max is at least each of
\* primary_pos, primary_neg, residual_pos and residual_neg, the two "neg"
\* values being the returned absolute values.
C1_MaxiMaxDominates ==
    srs_pc = "done" =>
        \A i \in 1..Len(srs_result.frequencies) :
            /\ srs_result.maxi_max[i] >= srs_result.primary_pos[i]
            /\ srs_result.maxi_max[i] >= srs_result.primary_neg[i]
            /\ srs_result.maxi_max[i] >= srs_result.residual_pos[i]
            /\ srs_result.maxi_max[i] >= srs_result.residual_neg[i]

\* C1 witness: a returned spectrum of two frequencies whose first entry has a
\* non-zero residual and a maximax strictly above its positive primary peak.
C1_Witness ==
    /\ srs_pc = "done"
    /\ Len(srs_result.frequencies) = 2
    /\ srs_result.residual_neg[1] > 0
    /\ srs_result.maxi_max[1] > srs_result.primary_pos[1]
    /\ srs_result.maxi_max[1] > srs_result.residual_pos[1]

\* The 0-based indices of the record whose magnitude is strictly above 1% of
\* the record's peak magnitude.
AboveOnePercent ==
    {j \in 0..(Len(base_accel) - 1) :
        Abs(base_accel[j + 1]) > Mul(OnePercent, SeqMax(SeqAbs(base_accel)))}

\* The largest element of a non-empty set of integers.
Largest(S) == CHOOSE m \in S : \A j \in S : j <= m

\* The extremes recorded at slot k are those of samples 0..shock_end_idx and
\* of samples shock_end_idx+1..end of the response for frequencies[k]; the
\* two ranges together are every sample, each once.
SplitAt(k) ==
    LET response == ResponseOf(frequencies[k], damping_ratio, base_accel, dt)
        n == Len(response)
        first == SubSeq(response, 1, shock_end_idx + 1)
        rest == SubSeq(response, shock_end_idx + 2, n)
    IN  /\ first \o rest = response
        /\ primary_pos[k] = SeqMax(first)
        /\ primary_neg[k] = SeqMin(first)
        /\ residual_pos[k] = IF rest = <<>> THEN 0 ELSE SeqMax(rest)
        /\ residual_neg[k] = IF rest = <<>> THEN 0 ELSE SeqMin(rest)

\* C2 (as the code has it): the shock-end index is the largest index of the
\* base record whose magnitude is strictly above 1% of the peak magnitude, or
\* the last index when no sample is above it; every frequency already
\* processed was split at that index into primary and residual segments.
C2_ShockEndSplit ==
    srs_pc # "idle" =>
        /\ shock_end_idx = IF AboveOnePercent = {}
                           THEN Len(base_accel) - 1
                           ELSE Largest(AboveOnePercent)
        /\ \A k \in 1..srs_i : SplitAt(k)

\* C2 witness: a record whose shock ends before its last sample, with a
\* frequency already split into a primary and a non-empty residual segment.
C2_Witness ==
    /\ srs_pc = "loop"
    /\ srs_i > 0
    /\ AboveOnePercent # {}
    /\ shock_end_idx = Largest(AboveOnePercent)
    /\ shock_end_idx < Len(base_accel) - 1
    /\ residual_pos[1] # 0

\* C2 as stated: the shock-end index is always an index whose magnitude is
\* strictly above 1% of the peak, and the largest such.
C2_AsStated ==
    srs_pc # "idle" =>
        /\ shock_end_idx \in AboveOnePercent
        /\ \A j \in AboveOnePercent : j <= shock_end_idx

\* Entry i of one returned spectrum and entry j of another agree in all five
\* sequences.
SameEntry(r1, i, r2, j) ==
    /\ r1.maxi_max[i] = r2.maxi_max[j]
    /\ r1.primary_pos[i] = r2.primary_pos[j]
    /\ r1.primary_neg[i] = r2.primary_neg[j]
    /\ r1.residual_pos[i] = r2.residual_pos[j]
    /\ r1.residual_neg[i] = r2.residual_neg[j]

\* The five sequences of a returned spectrum are as long as its frequencies.
FiveParallel(r) ==
    /\ Len(r.maxi_max) = Len(r.frequencies)
    /\ Len(r.primary_pos) = Len(r.frequencies)
    /\ Len(r.primary_neg) = Len(r.frequencies)
    /\ Len(r.residual_pos) = Len(r.frequencies)
    /\ Len(r.residual_neg) = Len(r.frequencies)

\* C3: the five returned sequences are as long as the requested frequency
\* list; entry i is the value of one integration of the base record for
\* frequencies[i]; entries for equal frequencies are equal, within one
\* spectrum and between the spectra of two calls on the same record that
\* request the frequencies in a different order.
C3_OrderIndependent ==
    srs_pc = "done" =>
        /\ srs_result.frequencies = frequencies
        /\ FiveParallel(srs_result)
        /\ \A i \in 1..Len(frequencies) :
              srs_result.maxi_max[i]
                  = SeqMax(SeqAbs(Response(frequencies[i], damping_ratio,
                                           base_accel, dt)))
        /\ \A i, j \in 1..Len(frequencies) :
              frequencies[i] = frequencies[j]
                  => SameEntry(srs_result, i, srs_result, j)
        /\ srs_prev # None =>
              /\ Len(srs_prev.frequencies) = Len(frequencies)
              /\ \A i, j \in 1..Len(frequencies) :
                    frequencies[i] = srs_prev.frequencies[j]
                        => SameEntry(srs_result, i, srs_prev.result, j)

\* C3 witness: two distinct frequencies were requested in one order and then
\* in the other, and their spectrum entries differ.
C3_Witness ==
    /\ srs_pc = "done"
    /\ srs_prev # None
    /\ Len(frequencies) = 2
    /\ frequencies[1] # frequencies[2]
    /\ srs_prev.frequencies = <<frequencies[2], frequencies[1]>>
    /\ srs_result.maxi_max[1] # srs_result.maxi_max[2]
    /\ srs_result.residual_pos[1] # srs_result.residual_pos[2]

C15_ResidualExtremes ==
    srs_pc = "done" =>
        LET n == Len(base_accel)
            last_above == Abs(base_accel[n]) > Mul(OnePercent, PeakAccel(base_accel))
            all_zero == \A j \in 1..n : base_accel[j] = 0
        IN  /\ (last_above \/ all_zero) => shock_end_idx = n - 1
            /\ \A i \in 1..Len(frequencies) :
                  LET response == ResponseOf(frequencies[i], damping_ratio,
                                             base_accel, dt)
                      after == [j \in 1..(n - 1 - shock_end_idx) |->
                                   response[shock_end_idx + 1 + j]]
                  IN  IF shock_end_idx = n - 1
                      THEN /\ srs_result.residual_pos[i] = 0
                           /\ srs_result.residual_neg[i] = 0
                      ELSE /\ srs_result.residual_pos[i] = SeqMax(after)
                           /\ srs_result.residual_neg[i] = Abs(SeqMin(after))

\* C15 witness: a record that ends above the threshold, whose response is
\* not zero at its last sample, with zero residual extremes.
C15_Witness ==
    /\ srs_pc = "done"
    /\ Len(frequencies) > 0
    /\ shock_end_idx = Len(base_accel) - 1
    /\ base_accel[Len(base_accel)] # 0
    /\ ResponseOf(frequencies[1], damping_ratio, base_accel, dt)[Len(base_accel)] # 0
    /\ srs_result.residual_pos[1] = 0
    /\ srs_result.residual_neg[1] = 0

C4_PulseLengthAndTail ==
    pulse_pc = "done" =>
        /\ Len(t) = Len(accel)
        /\ (Len(t) - 1) * pulse_dt < 10 * duration
        /\ Len(t) * pulse_dt >= 10 * duration
        /\ \A j \in 0..(Len(accel) - 1) :
              j >= duration \div pulse_dt => accel[j + 1] = 0

\* C4 witness: a pulse whose time step does not divide its duration was
\* generated, with non-zero samples before int(duration/dt) and a zero tail.
C4_Witness ==
    /\ pulse_pc = "done"
    /\ (10 * duration) % pulse_dt # 0
    /\ duration \div pulse_dt >= 2
    /\ accel[2] # 0
    /\ accel[duration \div pulse_dt + 1] = 0

\* C4 as stated: the arrays have length 10 * duration / dt.
C4_AsStated ==
    pulse_pc = "done" =>
        /\ Len(t) = Len(accel)
        /\ Len(t) * pulse_dt = 10 * duration

\* C16 (as the code has it): the returned time sequence starts at 0 and runs
\* in steps of dt up to the last multiple of dt below 10 * duration, so it
\* spans less than 10 times the pulse duration, by at most one time step.
C16_SpanBelowTenDurations ==
    pulse_pc = "done" =>
        /\ t[1] = 0
        /\ \A j \in 1..Len(t) : t[j] = (j - 1) * pulse_dt
        /\ t[Len(t)] - t[1] < 10 * duration
        /\ t[Len(t)] - t[1] >= 10 * duration - pulse_dt

\* C16 witness: a pulse of 1 s sampled every 0.1 s, whose time sequence of
\* 100 samples ends at 9.9 s.
C16_Witness ==
    /\ pulse_pc = "done"
    /\ duration = ONE
    /\ pulse_dt = 100000
    /\ Len(t) = 100
    /\ t[Len(t)] - t[1] = 9900000

\* C16 as stated: the last time value minus the first is at least
\* 10 * duration.
C16_AsStated == pulse_pc = "done" => t[Len(t)] - t[1] >= 10 * duration

(***************************************************************************)
(* C18: for entries m > 0, k > 0 and a damping ratio zeta >= 0, the        *)
(* oscillator from_damping_ratio builds stores c = zeta * critical_damping *)
(* and its damping_ratio is zeta again, to within two units of the last    *)
(* digit the arithmetic keeps; its mass, stiffness and natural frequency   *)
(* are those of SDOFSystem(m, k, c).                                       *)
(***************************************************************************)
C18_DampingRatioRoundTrip ==
    (entries # None /\ entries.use_ratio
        /\ EntriesValid(entries.mass, entries.stiffness, entries.damping)) =>
        /\ system = from_damping_ratio(entries.mass, entries.stiffness,
                                       entries.damping)
        /\ system.damping = Mul(entries.damping, critical_damping(system))
        /\ Abs(system_damping_ratio(system) - entries.damping) <= 2
        /\ system = SDOFSystem(entries.mass, entries.stiffness, system.damping)
        /\ natural_frequency(system)
              = natural_frequency(SDOFSystem(entries.mass, entries.stiffness,
                                             system.damping))

\* C18 witness: an oscillator built from m = 4, k = 1 and zeta = 1.2, whose
\* critical damping is 4 and whose stored damping is 4.8.
C18_Witness ==
    /\ entries # None
    /\ entries.use_ratio
    /\ entries = Entry(4 * ONE, ONE, 1200000, TRUE)
    /\ system.damping = 4800000
    /\ system_damping_ratio(system) = 1200000

(***************************************************************************)
(* Properties of the damping regimes                                       *)
(***************************************************************************)
\* How many of the three regime predicates hold of the system.
RegimeCount(sys) ==
    (IF is_underdamped(sys) THEN 1 ELSE 0)
    + (IF is_critically_damped(sys) THEN 1 ELSE 0)
    + (IF is_overdamped(sys) THEN 1 ELSE 0)

\* C5: exactly one of is_underdamped, is_critically_damped and is_overdamped
\* is true of every oscillator, also for damping ratios just below, at and
\* just above 1.
C5_ExactlyOneRegime == system # None => RegimeCount(system) = 1

\* C5: an oscillator with damping ratio 0.999995 (m = 1, k = 1, c = 1.99999)
\* has been derived; it is underdamped and critically damped at once.
C5_TwoRegimes ==
    /\ system # None
    /\ system_damping_ratio(system) = 999995
    /\ is_underdamped(system)
    /\ is_critically_damped(system)
    /\ damping_type_label = "Underdamped"

(***************************************************************************)
(* Properties of the time responses                                        *)
(***************************************************************************)
\* What two values may differ by through rounding alone: 0.001.
Tol == ONE \div 1000

\* C6: with the transient included and zeta < 1, the total harmonic response
\* has zero displacement and zero velocity at t = 0: A = -x_steady(0) and
\* -zeta omega_n A + omega_d B = -v_steady(0) = -X omega cos(phi).
C6_StartsFromRest ==
    (response_type = "harmonic" /\ coeffs.transient) =>
        /\ time[1] = 0
        /\ Abs(displacement[1]) <= Tol
        /\ Abs(coeffs.A + x_steady[1]) <= Tol
        /\ Abs(Mul(coeffs.omega_d, coeffs.B)
               - Mul(Mul(coeffs.zeta, coeffs.omega_n), coeffs.A)
               + Mul(Mul(coeffs.X, coeffs.omega), Cos(coeffs.phi))) <= Tol

\* C6: a damped oscillator whose total response at t = 0 is twice the
\* steady-state displacement (A = +x_steady(0)), not zero, while the
\* velocities do cancel.
C6_DoubledAtStart ==
    /\ response_type = "harmonic"
    /\ coeffs.transient
    /\ time[1] = 0
    /\ coeffs.A = x_steady[1]
    /\ displacement[1] = 2 * x_steady[1]
    /\ Abs(displacement[1]) > 100 * Tol
    /\ Abs(Mul(coeffs.omega_d, coeffs.B)
           - Mul(Mul(coeffs.zeta, coeffs.omega_n), coeffs.A)
           + Mul(Mul(coeffs.X, coeffs.omega), Cos(coeffs.phi))) <= Tol

\* C17: the total response compute_harmonic_response returns is, element for
\* element, the steady-state response whenever the damping ratio is at least
\* 1 (with or without include_transient) and whenever include_transient is
\* False; the transient is added exactly when include_transient is True and
\* the damping ratio is below 1.
C17_TransientOnlyUnderdamped ==
    response_type = "harmonic" =>
        /\ coeffs.transient
              <=> (coeffs.include_transient /\ system_damping_ratio(system) < ONE)
        /\ (system_damping_ratio(system) >= ONE \/ ~coeffs.include_transient)
              => displacement = x_steady
        /\ Len(displacement) = Len(time)
        /\ Len(x_steady) = Len(time)
        /\ coeffs.transient =>
              \A j \in 1..Len(time) :
                  displacement[j] = x_steady[j] + TransientAt(coeffs, time[j])

\* C17 witness: an overdamped oscillator whose transient was asked for and
\* whose total response is its steady-state response, not zero.
C17_Witness ==
    /\ response_type = "harmonic"
    /\ coeffs.include_transient
    /\ system_damping_ratio(system) > ONE
    /\ Len(time) = 3
    /\ displacement = x_steady
    /\ x_steady[1] # 0
    /\ x_steady[3] # 0

\* x_s [1 + (s1 e^(s2 t) - s2 e^(s1 t)) / (s2 - s1)] at the instant tj.
OverdampedStepFormula(x_s, s1, s2, tj) ==
    Mul(x_s, ONE + Div(Mul(s1, Exp(Mul(s2, tj))) - Mul(s2, Exp(Mul(s1, tj))),
                       s2 - s1))

\* C7: for an overdamped oscillator the step response is
\* x_s [1 + (s1 e^(s2 t) - s2 e^(s1 t)) / (s2 - s1)]: the coefficients of the
\* two exponentials sum to -1 and the displacement at t = 0 is 0.
C7_OverdampedStep ==
    (response_type = "step" /\ system_damping_ratio(system) > ONE) =>
        /\ Abs(coeffs.A + coeffs.B + ONE) <= Tol
        /\ time[1] = 0 /\ Abs(displacement[1]) <= Tol
        /\ \A j \in 1..Len(time) :
              Abs(displacement[j]
                  - OverdampedStepFormula(coeffs.x_static, coeffs.s1,
                                          coeffs.s2, time[j])) <= Tol

\* C7: an overdamped step response whose coefficients sum to +1 and whose
\* displacement at t = 0 is twice the static deflection.
C7_StartsAtTwiceStatic ==
    /\ response_type = "step"
    /\ system_damping_ratio(system) > ONE
    /\ Abs(coeffs.A + coeffs.B - ONE) <= Tol
    /\ time[1] = 0
    /\ coeffs.x_static > 0
    /\ Abs(displacement[1] - 2 * coeffs.x_static) <= Tol

\* C8: every value a time-response operation returns for an instant t < 0 is
\* zero.
C8_ZeroBeforeStart ==
    response_type # "none" =>
        \A j \in 1..Len(time) :
            time[j] < 0 =>
                /\ displacement[j] = 0
                /\ x_steady # <<>> => x_steady[j] = 0
                /\ env # <<>> => env[j] = 0

\* C8: decay_envelope evaluated at t = -1 s returned more than the initial
\* amplitude.
C8_EnvelopeBeforeStart ==
    /\ response_type = "decay_envelope"
    /\ time[1] = -ONE
    /\ displacement[1] > ONE

\* C9: for 0 < zeta < 1, x0 = A0 = 1 and v0 = 0, as the application plots
\* them, |compute_free_vibration(t)| <= decay_envelope(t) at every t >= 0.
C9_EnvelopeBounds ==
    (/\ response_type = "Free Vibration"
     /\ system_damping_ratio(system) > 0
     /\ system_damping_ratio(system) < ONE) =>
        \A j \in 1..Len(time) :
            time[j] >= 0 => Abs(displacement[j]) <= env[j] + Tol

\* C9: at damping ratio 0.6 the plotted free vibration is above its envelope
\* by more than 0.1 at some instant t > 0.
C9_AboveEnvelope ==
    /\ response_type = "Free Vibration"
    /\ system_damping_ratio(system) = 600000
    /\ \E j \in 1..Len(time) :
          time[j] > 0 /\ displacement[j] > env[j] + 100 * Tol

(***************************************************************************)
(* Properties of the transmissibility                                      *)
(***************************************************************************)
\* C10 (as the code has it): at the ratio find_crossover_frequency returns,
\* the transmissibility is 1 to within rounding for every zeta >= 0, and the
\* numerator and the denominator agree to within rounding.
C10_CrossoverNearOne ==
    \A j \in 1..Len(TR) :
        <<frequency_ratios[j]>> = crossover =>
            /\ Abs(TR[j] - ONE) <= Tol
            /\ Abs(Numerator(tr_zeta, frequency_ratios[j])
                   - Denominator(tr_zeta, frequency_ratios[j])) <= Tol

\* C10 witness: the transmissibility of a damped oscillator was computed at
\* the crossover ratio and is within rounding of 1.
C10_Witness ==
    /\ TR # <<>>
    /\ tr_zeta > 0
    /\ <<frequency_ratios[1]>> = crossover
    /\ Abs(TR[1] - ONE) <= Tol

\* C10 as stated: at the crossover ratio the transmissibility is exactly 1,
\* the numerator and the denominator being equal.
C10_AsStated ==
    \A j \in 1..Len(TR) :
        <<frequency_ratios[j]>> = crossover =>
            /\ TR[j] = ONE
            /\ Numerator(tr_zeta, frequency_ratios[j])
                   = Denominator(tr_zeta, frequency_ratios[j])

(***************************************************************************)
(* C11: a click on Calculate while the mass or stiffness entry is not      *)
(* positive or the damping entry is negative leaves _system and            *)
(* _current_data exactly as they were: get_system raises ValidationError   *)
(* before an oscillator is built and no analysis runs.                     *)
(***************************************************************************)
C11_InvalidEntriesLeaveState ==
    [][((entries.mass <= 0 \/ entries.stiffness <= 0 \/ entries.damping < 0)
            /\ OnCalculate)
        => (system' = system /\ current_data' = current_data)]_vars

\* A click on a negative damping entry after an analysis had stored its data
\* for another oscillator.
C11_Witness ==
    /\ messagebox = <<"Validation Error">>
    /\ entries.damping < 0
    /\ current_data # None
    /\ system.mass # entries.mass

(***************************************************************************)
(* C12: a sweep whose maximum frequency does not exceed its minimum is     *)
(* rejected with an error before any frequency array is built or any       *)
(* response is computed, by validate_frequency_range and by the sweeps of  *)
(* the window: a click on Calculate for such a range shows an error and    *)
(* stores nothing.                                                         *)
(***************************************************************************)
C12_ReversedSweepRejected ==
    [][(/\ controls' = controls
        /\ entries' = entries
        /\ controls.analysis_type \in {"Frequency Response", "Transmissibility"}
        /\ controls.freq_max <= controls.freq_min
        /\ validate_frequency_range(controls.freq_min, controls.freq_max,
                                    MinSweepPoints) = <<>>
        /\ OnCalculate)
        => (current_data' = current_data /\ messagebox' # <<>>)]_vars

\* A frequency response stored for a sweep that runs from 0.2 Hz down to
\* 0.1 Hz, with no error shown.
C12_DescendingSweepStored ==
    /\ current_data # None
    /\ current_data.type = "frequency_response"
    /\ controls.analysis_type = "Frequency Response"
    /\ controls.freq_max < controls.freq_min
    /\ current_data.frequencies.data[1]
           > current_data.frequencies.data[Len(current_data.frequencies.data)]
    /\ messagebox = <<>>

(***************************************************************************)
(* C13: every time response the window calculates is stored as a           *)
(* 'displacement' sequence with exactly one value per instant of its       *)
(* 'time' array, in the same order.                                        *)
(***************************************************************************)
C13_OneValuePerInstant ==
    (current_data # None /\ current_data.type = "time_response")
        => /\ current_data.displacement.type = "ndarray"
           /\ current_data.displacement.ndim = 1
           /\ Len(current_data.displacement.data) = Len(current_data.time.data)

\* An impulse response stored as the tuple (t, x) of two two-dimensional
\* arrays with n_points rows, next to a time array of another length.
C13_TupleStoredAsDisplacement ==
    /\ current_data # None
    /\ current_data.type = "time_response"
    /\ current_data.response_type = "Impulse Response"
    /\ current_data.displacement.type = "tuple"
    /\ Len(current_data.displacement.data) = 2
    /\ current_data.displacement.data[2].ndim = 2
    /\ Len(current_data.displacement.data[2].data) = n_points_default
    /\ Len(current_data.time.data) # n_points_default
    /\ messagebox = <<"Error">>

(***************************************************************************)
(* C20: as stated, a triangular pulse with at least one sample starts at   *)
(* 0, rises up to normalised time 0.5 and falls after it, takes equal      *)
(* values at instants equally far from the middle of the pulse, and keeps  *)
(* every sample between 0 and the requested amplitude.                     *)
(***************************************************************************)
C20_TriangleWithinAmplitude ==
    (/\ pulse_pc = "done"
     /\ pulse_type = "triangular"
     /\ PulseSamples(duration, pulse_dt) >= 1) =>
        LET N == PulseSamples(duration, pulse_dt)
        IN  /\ accel[1] = 0
            /\ \A j \in 1..N : accel[j] >= 0 /\ accel[j] <= amplitude
            /\ \A j \in 1..(N - 1) :
                  /\ 2 * t[j + 1] <= duration => accel[j] <= accel[j + 1]
                  /\ 2 * t[j] >= duration => accel[j] >= accel[j + 1]
            /\ \A j, n \in 1..N :
                  t[j] + t[n] = duration => Abs(accel[j] - accel[n]) <= 2

\* A triangular pulse of three samples (duration 1 s, 0.3 s apart, amplitude
\* 1): the falling branch starts at the second sample, at normalised time
\* 0.3, with 1.4 times the amplitude.
C20_OddCountOvershoot ==
    /\ pulse_pc = "done"
    /\ pulse_type = "triangular"
    /\ duration = ONE
    /\ pulse_dt = 300000
    /\ amplitude = ONE
    /\ PulseSamples(duration, pulse_dt) = 3
    /\ accel[1] = 0
    /\ accel[2] = 1400000
    /\ accel[2] > amplitude
    /\ 2 * t[2] < duration

(***************************************************************************)
(* C21: as stated, a trapezoidal pulse with at least one sample holds only *)
(* finite values between 0 and the requested amplitude, and holds the      *)
(* amplitude at every sample of the middle half of the pulse.              *)
(***************************************************************************)
C21_TrapezoidFiniteWithinAmplitude ==
    (/\ pulse_pc = "done"
     /\ pulse_type = "trapezoidal"
     /\ PulseSamples(duration, pulse_dt) >= 1) =>
        \A j \in 1..PulseSamples(duration, pulse_dt) :
            /\ accel[j] \notin {NaN, Inf, -Inf}
            /\ accel[j] >= 0
            /\ accel[j] <= amplitude
            /\ (4 * t[j] >= duration /\ 4 * t[j] < 3 * duration) =>
                  accel[j] = amplitude

\* A trapezoidal pulse of three samples (duration 1 s, 0.3 s apart, amplitude
\* 1): the rise length is 0 and the fall divides by it, leaving nan at the
\* second sample and minus infinity at the third.
C21_ZeroRiseLength ==
    /\ pulse_pc = "done"
    /\ pulse_type = "trapezoidal"
    /\ duration = ONE
    /\ pulse_dt = 300000
    /\ amplitude = ONE
    /\ PulseSamples(duration, pulse_dt) = 3
    /\ PulseSamples(duration, pulse_dt) \div 4 = 0
    /\ accel[1] = amplitude
    /\ accel[2] = NaN
    /\ accel[3] = -Inf

(***************************************************************************)
(* C22: for every requested frequency of a compute_srs call on a non-empty *)
(* record, compute_sdof_response returns one relative displacement per     *)
(* base sample; the integration starts at rest with the relative           *)
(* acceleration -base_accel[0]; the state at index i+1 is one Newmark step *)
(* from the state at index i and base sample i+1, so the states up to an   *)
(* index are those of the record cut at that index.                        *)
(***************************************************************************)
C22_ResponseFromRest ==
    (srs_pc # "idle" /\ Len(base_accel) > 0) =>
        \A i \in 1..Len(frequencies) :
            Bind2(NewmarkCoeffs(OmegaOf(frequencies[i]), damping_ratio, dt),
                  compute_sdof_response(frequencies[i], damping_ratio,
                                        base_accel, dt),
                  LAMBDA c, x :
                Bind(NewmarkStates(base_accel, Len(base_accel), c), LAMBDA st :
                    /\ Len(x) = Len(base_accel)
                    /\ st[1] = [x |-> 0, v |-> 0, a |-> -base_accel[1]]
                    /\ \A j \in 1..Len(x) : x[j] = st[j].x
                    /\ \A j \in 1..(Len(x) - 1) :
                          st[j + 1] = NewmarkStep(st[j], base_accel[j + 1], c)
                    /\ \A n \in 1..Len(x) :
                          NewmarkStates(SubSeq(base_accel, 1, n), n, c)
                              = SubSeq(st, 1, n)))

\* C22 witness: a finished spectrum of the three-sample record 1, 0, -1 at
\* 0.1 Hz, whose response starts at 0 and has moved at the second sample.
C22_Witness ==
    /\ srs_pc = "done"
    /\ base_accel = <<ONE, 0, -ONE>>
    /\ frequencies = <<100000>>
    /\ compute_sdof_response(100000, damping_ratio, base_accel, dt)[1] = 0
    /\ compute_sdof_response(100000, damping_ratio, base_accel, dt)[2] # 0

(***************************************************************************)
(* C23: after compute_free_vibration, the overdamped coefficients satisfy  *)
(* A + B = x0 and A s1 + B s2 = v0 for the distinct roots s1, s2, and in   *)
(* every branch the displacement at an instant t = 0 of the time array is  *)
(* x0 (to the precision of the arithmetic).                                *)
(***************************************************************************)
C23_InitialConditionsMet ==
    response_type = "free_vibration" =>
        /\ coeffs.branch = "overdamped" =>
              /\ coeffs.s1 # coeffs.s2
              /\ Abs(coeffs.A + coeffs.B - coeffs.x0) <= Tol
              /\ Abs(Mul(coeffs.A, coeffs.s1) + Mul(coeffs.B, coeffs.s2)
                     - coeffs.v0) <= Tol
        /\ coeffs.branch \in {"underdamped", "critical"} => coeffs.A = coeffs.x0
        /\ \A j \in 1..Len(time) :
              time[j] = 0 => Abs(displacement[j] - coeffs.x0) <= Tol

\* C23 witness: an overdamped oscillator released from x0 = 2 with v0 = 1,
\* sampled from t = 0.
C23_Witness ==
    /\ response_type = "free_vibration"
    /\ coeffs.branch = "overdamped"
    /\ coeffs.x0 = 2 * ONE
    /\ coeffs.v0 = ONE
    /\ coeffs.s1 < coeffs.s2
    /\ Len(time) = 3
    /\ time[1] = 0
    /\ Abs(displacement[1] - 2 * ONE) <= Tol
    /\ displacement[3] # displacement[1]

(***************************************************************************)
(* C24: as stated, a change of the damping mode on valid entries leaves    *)
(* the oscillator's damping coefficient as it was, the entry holding the   *)
(* ratio c / (2 sqrt(k m)) of the coefficient c it held (to Ratio) or the  *)
(* coefficient zeta 2 sqrt(k m) of the ratio zeta it held (to              *)
(* Coefficient), to the four digits the entry shows.                       *)
(***************************************************************************)
C24_ToggleKeepsOscillator ==
    [][(/\ entries # None
        /\ entries' # None
        /\ entries'.use_ratio # entries.use_ratio
        /\ EntriesValid(entries.mass, entries.stiffness, entries.damping))
       => LET before == get_system(entries.mass, entries.stiffness,
                                   entries.damping, entries.use_ratio)
              after == get_system(entries'.mass, entries'.stiffness,
                                  entries'.damping, entries'.use_ratio)
              shown == IF entries'.use_ratio THEN system_damping_ratio(before)
                       ELSE before.damping
          IN  /\ Abs(entries'.damping - shown) <= Tol + shown \div 1000
              /\ Abs(after.damping - before.damping)
                    <= Tol + before.damping \div 1000]_vars

\* The window after the switch went to "Ratio" on the entries mass 1,
\* stiffness 1, damping coefficient 0.4 (damping ratio 0.2): the entry still
\* holds 0.4, now read as a ratio, and the oscillator's coefficient is 0.8.
C24_CoefficientReadAsRatio ==
    /\ entries = Entry(ONE, ONE, 400000, TRUE)
    /\ system = SDOFSystem(ONE, ONE, 800000)
    /\ system_damping_ratio(SDOFSystem(ONE, ONE, 400000)) = 200000

(***************************************************************************)
(* C25: as stated, the branch a call of compute_impulse_response,          *)
(* compute_step_response or compute_free_vibration has taken is the branch *)
(* each of the three takes for the oscillator, and it is the regime the    *)
(* properties is_underdamped, is_critically_damped and is_overdamped       *)
(* report.                                                                 *)
(***************************************************************************)
C25_SameRegimeBranch ==
    response_type \in {"impulse", "step", "free_vibration"} =>
        /\ coeffs.branch = ImpulseBranch(system_damping_ratio(system))
        /\ coeffs.branch = StepBranch(system_damping_ratio(system))
        /\ coeffs.branch = FreeVibrationLocals(system, ONE, 0).branch
        /\ coeffs.branch = "underdamped" <=> is_underdamped(system)
        /\ coeffs.branch = "critical" <=> is_critically_damped(system)
        /\ coeffs.branch = "overdamped" <=> is_overdamped(system)

\* An impulse response of an oscillator with damping ratio 1.000005 that
\* took the overdamped branch, where compute_free_vibration takes the
\* critical one and is_critically_damped holds.
C25_OverdampedNextToCritical ==
    /\ response_type = "impulse"
    /\ system_damping_ratio(system) = 1000005
    /\ coeffs.branch = "overdamped"
    /\ Len(displacement) = 3
    /\ FreeVibrationLocals(system, ONE, 0).branch = "critical"
    /\ is_critically_damped(system)
    /\ is_overdamped(system)

(***************************************************************************)
(* C26: as stated, the oscillator whose parameters _on_export_data writes  *)
(* as the metadata of a file is the oscillator the exported data was       *)
(* computed from.                                                          *)
(***************************************************************************)
C26_MetadataOfDataOscillator ==
    (/\ export_log # None
     /\ export_log.handler = "data"
     /\ export_log.file # None)
        => export_log.file.system_info = export_log.file.computed_from

\* A frequency response computed for m = 1, k = 1, c = 0.4 and exported,
\* after the mass entry was changed to 4, under the metadata of the
\* oscillator with mass 4.
C26_StaleDataNewMetadata ==
    /\ export_log # None
    /\ export_log.handler = "data"
    /\ export_log.file # None
    /\ export_log.file.data_type = "frequency_response"
    /\ export_log.file.complete
    /\ export_log.file.computed_from = SDOFSystem(ONE, ONE, 400000)
    /\ export_log.file.system_info = SDOFSystem(4 * ONE, ONE, 400000)
    /\ current_data = calculate_frequency_response(SDOFSystem(ONE, ONE, 400000),
                                                   controls).data
    /\ messagebox = <<"Success">>

(***************************************************************************)
(* C27: as stated, in every analysis mode the window is in, each option    *)
(* widget the handler of Calculate reads for that mode has been created by *)
(* the latest options setup and is not destroyed.                          *)
(***************************************************************************)
C27_OptionWidgetsFresh ==
    \A a \in WidgetsRead(controls.analysis_type) : widgets[a] = "fresh"

\* Calculate pressed in mode "Transmissibility" with the multi-curve box
\* ticked: get_frequency_range read the Points entry that _clear_options
\* destroyed, the read raised, and nothing was calculated.
C27_DestroyedPointsEntryRead ==
    /\ controls.analysis_type = "Transmissibility"
    /\ controls.multi_zeta
    /\ "n_points_entry" \in WidgetsRead(controls.analysis_type)
    /\ widgets["n_points_entry"] = "destroyed"
    /\ widgets["freq_min_entry"] = "fresh"
    /\ current_data = None
    /\ messagebox = <<"Error">>

(***************************************************************************)
(* C28: an export handler has opened the save dialog or written a file     *)
(* only with _current_data set; _current_data is None exactly until a      *)
(* calculation has assigned it; it is never reset to None; and it changes  *)
(* only in a click on Calculate with valid entries, to the data an         *)
(* analysis computed for the current oscillator and options.               *)
(***************************************************************************)
C28_ExportNeedsData ==
    /\ [](/\ (export_log # None /\ (export_log.dialog \/ export_log.file # None))
               => current_data # None
          /\ current_data = None <=> data_system = None)
    /\ [][/\ current_data # None => current_data' # None
          /\ current_data' # current_data =>
                /\ EntriesValid(entries.mass, entries.stiffness, entries.damping)
                /\ entries' = entries
                /\ controls' = controls
                /\ export_log' = export_log
                /\ \E res \in Analyses(system', controls, current_data) :
                      current_data' = res.data]_vars

\* C28 witness: an export of the plot refused for lack of data, before any
\* calculation.
C28_Witness ==
    /\ current_data = None
    /\ export_log = ExportLog("plot", FALSE, None)
    /\ messagebox = <<"No Data">>


\* The pulse kinds the if/elif chain of generate_shock_pulse knows.
SupportedPulseTypes == PulseTypes \ {"square"}

(***************************************************************************)
(* C29: as stated, the record compute_srs_from_pulse generates for a       *)
(* supported pulse kind has at least one pulse sample and at least one     *)
(* nonzero sample, and the spectrum returned for it is not all zero.       *)
(***************************************************************************)
C29_PulseRecordNotEmpty ==
    (srs_pc # "idle" /\ pulse_type \in SupportedPulseTypes) =>
        /\ PulseSamples(duration, pulse_dt) >= 1
        /\ \E j \in 1..Len(base_accel) : base_accel[j] # 0
        /\ srs_pc = "done" =>
              \E i \in 1..Len(frequencies) : srs_result.maxi_max[i] # 0

\* A rectangular pulse of 0.5 s asked for at 0.05 Hz only: the time step
\* is 1 s, no sample lies inside the pulse, the record is five zeros and
\* all five result sequences are zero.
C29_NoSampleInsidePulse ==
    /\ srs_pc = "done"
    /\ pulse_type = "rectangular"
    /\ duration = 500000
    /\ amplitude = ONE
    /\ frequencies = <<50000>>
    /\ dt = PulseTimeStep(50000)
    /\ dt = ONE
    /\ PulseSamples(duration, dt) = 0
    /\ base_accel = Zeros(5)
    /\ base_accel = accel
    /\ srs_result.maxi_max = <<0>>
    /\ srs_result.primary_pos = <<0>>
    /\ srs_result.primary_neg = <<0>>
    /\ srs_result.residual_pos = <<0>>
    /\ srs_result.residual_neg = <<0>>


(***************************************************************************)
(* C30: for a pulse kind outside the seven supported ones,                 *)
(* generate_shock_pulse returns a time array of the usual length with an   *)
(* all-zero acceleration record, and compute_srs_from_pulse runs on that   *)
(* record and returns zeros in all five result sequences, one per          *)
(* frequency.                                                              *)
(***************************************************************************)
C30_UnknownKindAllZero ==
    (pulse_pc = "done" /\ pulse_type \notin SupportedPulseTypes) =>
        /\ Len(t) = ArangeLen(10 * duration, pulse_dt)
        /\ Len(t) > 0
        /\ accel = Zeros(Len(t))
        /\ srs_pc # "idle" =>
              /\ base_accel = accel
              /\ \A i \in 1..srs_i :
                    /\ maxi_max[i] = 0
                    /\ primary_pos[i] = 0
                    /\ primary_neg[i] = 0
                    /\ residual_pos[i] = 0
                    /\ residual_neg[i] = 0
        /\ srs_pc = "done" =>
              /\ srs_result.frequencies = frequencies
              /\ srs_result.maxi_max = Zeros(Len(frequencies))
              /\ srs_result.primary_pos = Zeros(Len(frequencies))
              /\ srs_result.primary_neg = Zeros(Len(frequencies))
              /\ srs_result.residual_pos = Zeros(Len(frequencies))
              /\ srs_result.residual_neg = Zeros(Len(frequencies))

\* C30 witness: the spectrum at 0.05 and 0.1 Hz of a pulse of kind "square"
\* of 1 s: twenty zero samples, two zeros in every result sequence.
C30_Witness ==
    /\ srs_pc = "done"
    /\ pulse_pc = "done"
    /\ pulse_type = "square"
    /\ duration = ONE
    /\ amplitude = ONE
    /\ frequencies = <<50000, 100000>>
    /\ Len(accel) = 20
    /\ accel = Zeros(20)
    /\ srs_result.maxi_max = <<0, 0>>
    /\ srs_result.residual_neg = <<0, 0>>


=============================================================================
